---- MODULE Spec2Model ----
(***************************************************************************)
(* A model of the brain-training platform's PredictionEngine               *)
(* (src/unnamed/part_000): its result cache and asynchronous prediction    *)
(* calls, and the feature extraction and scoring formulas behind them.     *)
(*                                                                         *)
(* Numbers.  The engine computes in IEEE doubles.  The model computes in   *)
(* fixed point over the integers:                                          *)
(*   - instants and durations are whole minutes (the source's              *)
(*     milliseconds divided by 60000);                                     *)
(*   - feature values are thousandths ("milli"), quotients and square      *)
(*     roots rounded down;                                                 *)
(*   - confidences are millionths ("micro") and the churn risk score is    *)
(*     in units of 1e-5, so the weighted sums of features are exact;       *)
(*   - probabilities are whole percents, as Math.round(p * 100) yields.    *)
(* NaN is a distinguished value that every arithmetic operator and         *)
(* comparison treats as JavaScript does.                                   *)
(***************************************************************************)
EXTENDS Integers, Sequences, FiniteSets, TLC

----------------------------------------------------------------------------
(* Arithmetic *)

\* One unit of a feature value: 1.0 is Milli thousandths.
Milli == 1000 * 1

\* One unit of a confidence: 1.0 is Micro millionths.
Micro == 1000 * 1000

\* IEEE 754 not-a-number: the result of 0/0.
NaN == 0 - 2000000000

IsNaN(x) == x = NaN

\* a + b, a - b of doubles.
Add(a, b) == IF IsNaN(a) \/ IsNaN(b) THEN NaN ELSE a + b

Sub(a, b) == IF IsNaN(a) \/ IsNaN(b) THEN NaN ELSE a - b

\* a * k for an exact integer factor k.
Times(a, k) == IF IsNaN(a) THEN NaN ELSE a * k

\* a < b, a > b of doubles: false when either side is NaN.
Lt(a, b) == ~IsNaN(a) /\ ~IsNaN(b) /\ a < b

Gt(a, b) == ~IsNaN(a) /\ ~IsNaN(b) /\ a > b

\* Math.min, Math.max: NaN when either argument is NaN.
MathMin(a, b) == IF IsNaN(a) \/ IsNaN(b) THEN NaN ELSE IF a < b THEN a ELSE b

MathMax(a, b) == IF IsNaN(a) \/ IsNaN(b) THEN NaN ELSE IF a > b THEN a ELSE b

\* floor(a * k / b) for b > 0, computed without leaving 32 bits.
MulDiv(a, k, b) == (a \div b) * k + ((a % b) * k) \div b

\* The double a / b, in thousandths, of two integers or of two values in the
\* same unit.  0/0 is NaN; a nonzero numerator over 0 (an infinity) does not
\* arise from non-negative records.
Quot(a, b) ==
    IF IsNaN(a) \/ IsNaN(b) \/ b = 0 THEN NaN
    ELSE IF b > 0 THEN MulDiv(a, Milli, b) ELSE MulDiv(0 - a, Milli, 0 - b)

\* x / k for a feature value x (thousandths) and a positive integer k.
DivBy(x, k) == IF IsNaN(x) THEN NaN ELSE x \div k

\* Math.round of a value in thousandths, as an integer: halves round up.
MathRound(x) == IF IsNaN(x) THEN NaN ELSE (x + Milli \div 2) \div Milli

RECURSIVE ISqrtIn(_, _, _)
ISqrtIn(x, lo, hi) ==
    IF lo >= hi THEN lo
    ELSE LET mid == (lo + hi + 1) \div 2
         IN IF mid * mid <= x THEN ISqrtIn(x, mid, hi) ELSE ISqrtIn(x, lo, mid - 1)

\* floor(sqrt(x)) of a non-negative integer below 2^31.
ISqrt(x) == ISqrtIn(x, 0, IF x < 46340 THEN x ELSE 46340)

\* Math.sqrt of a value in thousandths, in thousandths, to two decimals.
MathSqrt(x) == IF IsNaN(x) \/ x < 0 THEN NaN ELSE ISqrt(x * 10) * 10

RECURSIVE Sum(_)
Sum(s) == IF s = <<>> THEN 0 ELSE Head(s) + Sum(Tail(s))

\* array.filter(p), array.map(f), array.slice(from, to) with 0-based bounds.
Filter(s, P(_)) == SelectSeq(s, P)

Map(s, F(_)) == [i \in 1..Len(s) |-> F(s[i])]

Slice(s, from, to) == IF from >= to THEN <<>> ELSE SubSeq(s, from + 1, to)

\* array.slice(-k): the last k elements.
LastK(s, k) == Slice(s, IF Len(s) > k THEN Len(s) - k ELSE 0, Len(s))

\* array.slice(-k, -j) for k > j > 0.
SliceNeg(s, k, j) == Slice(s, IF Len(s) > k THEN Len(s) - k ELSE 0, IF Len(s) > j THEN Len(s) - j ELSE 0)

----------------------------------------------------------------------------
(* Game records and configuration *)

\* this.config.updateInterval: 24 hours, in minutes.
updateInterval == 24 * 60

\* n days in minutes (n * 24 * 60 * 60 * 1000 ms).
Days(n) == n * 24 * 60

\* The fixed catalog of game types, in the order the engine lists them.
gameTypes == <<"memory_game", "reaction_game", "calculation_game", "pattern_memory", "puzzle_game">>

\* A record of the game-record store.
GameRecord(gameType, difficulty, score, playTime, mistakes, completed, timestamp) ==
    [gameType |-> gameType, difficulty |-> difficulty, score |-> score, playTime |-> playTime,
     mistakes |-> mistakes, completed |-> completed, timestamp |-> timestamp]

----------------------------------------------------------------------------
(* Statistics helpers *)

\* mean(array) of integers, in thousandths; NaN for an empty array (0/0).
mean(array) == Quot(Sum(array), Len(array))

\* variance(array): the population variance, in thousandths.  With n = length
\* and S = sum, sum (v - S/n)^2 / n = sum (n*v - S)^2 / n^3.
variance(array) ==
    LET n == Len(array)
        S == Sum(array)
    IN IF n = 0 THEN NaN
       ELSE MulDiv(Sum([i \in 1..n |-> (n * array[i] - S) * (n * array[i] - S)]), Milli, n * n * n)

\* calculateTrend(array): the least-squares slope of array over the indices
\* 0..n-1, in thousandths.  With 2(x_i - xMean) = 2i - (n-1) and
\* n(y_i - yMean) = n*y_i - S both numerator and denominator are integers.
calculateTrend(array) ==
    LET n == Len(array)
        S == Sum(array)
        numerator == Sum([i \in 1..n |-> (2 * (i - 1) - (n - 1)) * (n * array[i] - S)])
        denominator == Sum([i \in 1..n |-> (2 * (i - 1) - (n - 1)) * (2 * (i - 1) - (n - 1))])
    IN IF n < 2 THEN 0
       ELSE IF denominator = 0 THEN 0
       ELSE Quot(2 * numerator, n * denominator)

\* calculateConsistency(array): max(0, 1 - sqrt(variance) / mean).
calculateConsistency(array) ==
    IF Len(array) < 2 THEN Milli
    ELSE LET m == mean(array)
             coefficientOfVariation == Quot(MathSqrt(variance(array)), m)
         IN MathMax(0, Sub(Milli, coefficientOfVariation))

\* An improvement with the two means the other way round.
calculateRecentImprovementReversed(array) ==
    IF Len(array) < 10 THEN 0
    ELSE Sub(mean(SliceNeg(array, 10, 5)), mean(LastK(array, 5)))

\* calculateRecentImprovement(array): mean(last 5) - mean(the 5 before).
calculateRecentImprovement(array) ==
    IF Len(array) < 10 THEN 0
    ELSE Sub(mean(LastK(array, 5)), mean(SliceNeg(array, 10, 5)))

encodeDifficulty(difficulty) ==
    CASE difficulty = "easy" -> 1
      [] difficulty = "medium" -> 2
      [] difficulty = "hard" -> 3
      [] difficulty = "expert" -> 4
      [] OTHER -> 2

calculateGameExperience(games, gameType) ==
    Len(Filter(games, LAMBDA g : g.gameType = gameType))

\* games.filter(g => g.completed).length / games.length
calculateCompletionRate(games) ==
    Quot(Len(Filter(games, LAMBDA g : g.completed)), Len(games))

----------------------------------------------------------------------------
(* Score features and score prediction *)

\* getDefaultFeatures(): values in thousandths, difficultyLevel and
\* gameExperience as plain integers.
getDefaultFeatures ==
    [averageScore |-> 50 * Milli, scoreTrend |-> 0, scoreVariance |-> 25 * Milli,
     averagePlayTime |-> 300 * Milli, averageMistakes |-> 3 * Milli, completionRate |-> 700,
     recentImprovement |-> 0, consistency |-> 500, difficultyLevel |-> 2, gameExperience |-> 5]

\* A threshold one record too low.
minScoreRecordsOneLess == 5 - 1

\* The fewest qualifying records extractScoreFeatures computes from.
minScoreRecords == 5

\* The records extractScoreFeatures keeps at instant t.
scoreRecentGames(games, gameType, difficulty, t) ==
    Filter(games, LAMBDA g : /\ g.gameType = gameType
                             /\ g.difficulty = difficulty
                             /\ g.timestamp > t - Days(30))

\* extractScoreFeatures(userData, gameType, difficulty) called at instant t.
extractScoreFeatures(games, gameType, difficulty, t) ==
    LET recentGames == scoreRecentGames(games, gameType, difficulty, t)
        scores == Map(recentGames, LAMBDA g : g.score)
        playTimes == Map(recentGames, LAMBDA g : g.playTime)
        mistakes == Map(recentGames, LAMBDA g : g.mistakes)
    IN IF Len(recentGames) < minScoreRecords THEN getDefaultFeatures
       ELSE [averageScore |-> mean(scores),
             scoreTrend |-> calculateTrend(scores),
             scoreVariance |-> variance(scores),
             averagePlayTime |-> mean(playTimes),
             averageMistakes |-> mean(mistakes),
             completionRate |-> calculateCompletionRate(recentGames),
             recentImprovement |-> calculateRecentImprovement(scores),
             consistency |-> calculateConsistency(scores),
             difficultyLevel |-> encodeDifficulty(difficulty),
             gameExperience |-> calculateGameExperience(games, gameType)]

\* Math.min(sum, 1) of a confidence in millionths.
CapAtOne(c) == MathMin(c, Micro)

\* calculatePredictionConfidence(features), in millionths:
\*   consistency*0.3 + min(experience/20, 1)*0.2 + (1 - variance/100)*0.3
\*   + min(recentImprovement/10, 1)*0.2, capped at 1 from above only.
calculatePredictionConfidence(features) ==
    LET f1 == Times(features.consistency, 300)
        f2 == Times(MathMin(features.gameExperience * 50, Milli), 200)
        f3 == Sub(300000, Times(features.scoreVariance, 3))
        f4 == MathMin(Times(features.recentImprovement, 20), 200000)
    IN CapAtOne(Add(Add(Add(f1, f2), f3), f4))

\* A margin that leaves the horizon out: variance * 0.5.
calculatePredictionMarginNoHorizon(features, horizon) ==
    IF IsNaN(features.scoreVariance) THEN NaN
    ELSE features.scoreVariance \div 2

\* calculatePredictionMargin(features, horizon), in thousandths:
\*   variance * 0.5 * (1 + sqrt(horizon) * 0.1).
calculatePredictionMargin(features, horizon) ==
    IF IsNaN(features.scoreVariance) THEN NaN
    ELSE MulDiv(features.scoreVariance, 10 * Milli + MathSqrt(horizon * Milli), 20 * Milli)

\* calculateScorePrediction(features, horizon).  prediction and range are
\* integers (Math.round), confidence is in millionths, factors in thousandths.
calculateScorePrediction(features, horizon) ==
    LET baseScore == features.averageScore
        trendEffect == Times(features.scoreTrend, horizon)
        improvementEffect == Times(features.recentImprovement, IF horizon < 7 THEN horizon ELSE 7)
        consistencyEffect == Times(features.consistency, 10)
        predictedScore == Add(Add(Add(baseScore, trendEffect), improvementEffect), consistencyEffect)
        confidence == calculatePredictionConfidence(features)
        margin == calculatePredictionMargin(features, horizon)
    IN [prediction |-> MathMax(0, MathRound(predictedScore)),
        confidence |-> confidence,
        range |-> [min |-> MathMax(0, MathRound(Sub(predictedScore, margin))),
                   max |-> MathRound(Add(predictedScore, margin))],
        factors |-> [baseScore |-> baseScore, trendEffect |-> trendEffect,
                     improvementEffect |-> improvementEffect,
                     consistencyEffect |-> consistencyEffect],
        horizon |-> horizon]

\* The empty object {}.
EmptyObject == [k \in {} |-> 0]

getDefaultPrediction ==
    [prediction |-> 50, confidence |-> 500000, range |-> [min |-> 30, max |-> 70],
     factors |-> EmptyObject, horizon |-> 7]


----------------------------------------------------------------------------
(* Sessions *)

RECURSIVE InsertByTimestamp(_, _)
InsertByTimestamp(sorted, g) ==
    IF sorted = <<>> THEN <<g>>
    ELSE IF sorted[Len(sorted)].timestamp <= g.timestamp THEN Append(sorted, g)
    ELSE Append(InsertByTimestamp(SubSeq(sorted, 1, Len(sorted) - 1), g), sorted[Len(sorted)])

RECURSIVE SortByTimestamp(_)
\* games.sort((a, b) => a.timestamp - b.timestamp): ascending and stable.
SortByTimestamp(games) ==
    IF games = <<>> THEN <<>>
    ELSE InsertByTimestamp(SortByTimestamp(SubSeq(games, 1, Len(games) - 1)), games[Len(games)])

\* The inactivity gap that ends a session: 30 minutes.
sessionGap == 30

Session(currentSession) ==
    [games |-> currentSession, duration |-> Len(currentSession),
     startTime |-> currentSession[1].timestamp,
     endTime |-> currentSession[Len(currentSession)].timestamp]

RECURSIVE SessionLoopFromStart(_, _, _)
\* A loop that measures the gap from the first record of the open session.
SessionLoopFromStart(rest, currentSession, sessions) ==
    IF rest = <<>> THEN
        IF Len(currentSession) > 0 THEN Append(sessions, Session(currentSession)) ELSE sessions
    ELSE LET game == Head(rest) IN
        IF Len(currentSession) = 0 THEN SessionLoopFromStart(Tail(rest), <<game>>, sessions)
        ELSE LET firstGame == currentSession[1]
                 timeDiff == game.timestamp - firstGame.timestamp
             IN IF timeDiff < sessionGap
                THEN SessionLoopFromStart(Tail(rest), Append(currentSession, game), sessions)
                ELSE SessionLoopFromStart(Tail(rest), <<game>>, Append(sessions, Session(currentSession)))

RECURSIVE SessionLoop(_, _, _)
\* The forEach of groupIntoSessions over the sorted games, then the push of
\* the last open session.
SessionLoop(rest, currentSession, sessions) ==
    IF rest = <<>> THEN
        IF Len(currentSession) > 0 THEN Append(sessions, Session(currentSession)) ELSE sessions
    ELSE LET game == Head(rest) IN
        IF Len(currentSession) = 0 THEN SessionLoop(Tail(rest), <<game>>, sessions)
        ELSE LET lastGame == currentSession[Len(currentSession)]
                 timeDiff == game.timestamp - lastGame.timestamp
             IN IF timeDiff < sessionGap
                THEN SessionLoop(Tail(rest), Append(currentSession, game), sessions)
                ELSE SessionLoop(Tail(rest), <<game>>, Append(sessions, Session(currentSession)))

\* groupIntoSessions(games): the sessions it returns.  It also sorts its
\* argument in place; the array it leaves behind is SortByTimestamp(games).
groupIntoSessions(games) == SessionLoop(SortByTimestamp(games), <<>>, <<>>)

analyzeSessionPatterns(games) ==
    LET sessions == groupIntoSessions(games)
    IN [durations |-> Map(sessions, LAMBDA s : s.duration),
        frequency |-> Quot(Len(sessions), 7)]

----------------------------------------------------------------------------
(* Churn features and churn prediction *)

\* The records with t - Days(n) < timestamp.
WithinDays(games, n, t) == Filter(games, LAMBDA g : g.timestamp > t - Days(n))

calculateActivityDecline(games, t) ==
    LET recent == Len(WithinDays(games, 7, t))
        older == Len(Filter(games, LAMBDA g : /\ g.timestamp > t - Days(14)
                                              /\ g.timestamp <= t - Days(7)))
    IN Quot(older - recent, IF older > 1 THEN older ELSE 1)

\* (mean(scores) / 100) * 0.7 + completionRate * 0.3
calculateSatisfactionMetrics(games) ==
    LET m == mean(Map(games, LAMBDA g : g.score))
        completionRate == calculateCompletionRate(games)
    IN [score |-> IF IsNaN(m) \/ IsNaN(completionRate) THEN NaN
                  ELSE MulDiv(m, 7, Milli) + MulDiv(completionRate, 3, 10)]

\* min(dailyFrequency / 3, 1) * 0.6 + min(mean(sessionDuration) / 5, 1) * 0.4
calculateEngagementMetrics(games, t) ==
    LET recentActivity == WithinDays(games, 7, t)
        dailyFrequency == Quot(Len(recentActivity), 7)
        sessionDuration == analyzeSessionPatterns(recentActivity).durations
        d == mean(sessionDuration)
    IN [score |-> IF IsNaN(d) THEN NaN
                  ELSE MulDiv(MathMin(dailyFrequency \div 3, Milli), 6, 10)
                       + MulDiv(MathMin(d \div 5, Milli), 4, 10)]

calculateScoreDecline(games) ==
    IF Len(games) < 10 THEN 0
    ELSE Sub(mean(Map(SliceNeg(games, 10, 5), LAMBDA g : g.score)),
             mean(Map(LastK(games, 5), LAMBDA g : g.score)))

\* calculateSessionDropoff(userData): groups userData.games itself.
calculateSessionDropoff(games) ==
    LET sessions == groupIntoSessions(games)
        recentSessions == LastK(sessions, 3)
        olderSessions == SliceNeg(sessions, 6, 3)
        recentAvg == mean(Map(recentSessions, LAMBDA s : s.duration))
        olderAvg == mean(Map(olderSessions, LAMBDA s : s.duration))
    IN IF Len(sessions) < 2 THEN 0
       ELSE IF Len(olderSessions) = 0 THEN 0
       ELSE Quot(olderAvg - recentAvg, MathMax(olderAvg, Milli))

calculateGameAbandonment(games) ==
    Quot(Len(Filter(games, LAMBDA g : ~g.completed)), Len(games))

\* calculateDaysSinceLastActivity(userData) at instant t: from the LAST
\* element of the array, whatever its order.
calculateDaysSinceLastActivity(games, t) ==
    IF Len(games) = 0 THEN 999
    ELSE (t - games[Len(games)].timestamp) \div Days(1)

\* extractChurnFeatures(userData) at instant t.  calculateSessionDropoff has
\* sorted userData.games by the time calculateDaysSinceLastActivity reads it;
\* recentGames was filtered from the array as fetched.
extractChurnFeatures(games, t) ==
    LET recentGames == WithinDays(games, 30, t)
    IN [activityDecline |-> calculateActivityDecline(games, t),
        averageScore |-> mean(Map(recentGames, LAMBDA g : g.score)),
        scoreDecline |-> calculateScoreDecline(recentGames),
        sessionDropoff |-> calculateSessionDropoff(games),
        gameAbandonment |-> calculateGameAbandonment(recentGames),
        satisfactionScore |-> calculateSatisfactionMetrics(recentGames).score,
        engagementScore |-> calculateEngagementMetrics(games, t).score,
        daysSinceLastActivity |-> calculateDaysSinceLastActivity(SortByTimestamp(games), t)]

\* The risk score, in units of 1e-5: the features (thousandths) weighted
\* 0.3, 0.2, 0.25, 0.15, and (30 - days) weighted 0.1.
riskScore(features) ==
    Add(Add(Add(Add(Times(features.activityDecline, 30),
                    Times(features.scoreDecline, 20)),
                Times(features.sessionDropoff, 25)),
            Times(features.gameAbandonment, 15)),
        Times(30 - features.daysSinceLastActivity, 10 * Milli))

\* logit((2j - 1) / 200) for j = 1..100, in units of 1e-5 and rounded up:
\* Math.round(100 / (1 + exp(-r))) >= j exactly when r >= the j-th entry.
RoundedPercentLogits ==
    <<
      0 - 529330, 0 - 418459, 0 - 366356, 0 - 331678, 0 - 305504, 0 - 284385, 0 - 266615, 0 - 251230, 0 - 237627, 0 - 225405,
      0 - 214286, 0 - 204065, 0 - 194591, 0 - 185745, 0 - 177436, 0 - 169591, 0 - 162148, 0 - 155059, 0 - 148283, 0 - 141784,
      0 - 135533, 0 - 129504, 0 - 123676, 0 - 118029, 0 - 112545, 0 - 107212, 0 - 102014, 0 - 96940, 0 - 91979, 0 - 87122,
      0 - 82360, 0 - 77684, 0 - 73088, 0 - 68565, 0 - 64109, 0 - 59713, 0 - 55372, 0 - 51082, 0 - 46837, 0 - 42634,
      0 - 38467, 0 - 34333, 0 - 30228, 0 - 26147, 0 - 22089, 0 - 18048, 0 - 14022, 0 - 10008, 0 - 6001, 0 - 2000,
      2001, 6002, 10009, 14023, 18049, 22090, 26148, 30229, 34334, 38468,
      42635, 46838, 51083, 55373, 59714, 64110, 68566, 73089, 77685, 82361,
      87123, 91980, 96941, 102015, 107213, 112546, 118030, 123677, 129505, 135534,
      141785, 148284, 155060, 162149, 169592, 177437, 185746, 194592, 204066, 214287,
      225406, 237628, 251231, 266616, 284386, 305505, 331679, 366357, 418460, 529331 >>

\* logit(0.3) and logit(0.6) in units of 1e-5, rounded up.
logitLow == 0 - 84729

logitMedium == 0 + 40547

\* Math.round(churnProbability * 100), for churnProbability = 1/(1+exp(-r))
\* of a risk score r in units of 1e-5: a whole percent, or NaN.
RoundedProbability(r) ==
    IF IsNaN(r) THEN NaN
    ELSE Cardinality({j \in 1..Len(RoundedPercentLogits) : r >= RoundedPercentLogits[j]})

\* A classification that compares the risk score itself, not its
\* probability, with 0.3 and 0.6.
classifyRiskLevelOfScore(r) ==
    IF Lt(r, 30000) THEN "low"
    ELSE IF Lt(r, 60000) THEN "medium"
    ELSE "high"

\* classifyRiskLevel(probability), the probability 1/(1+exp(-r)) given by its
\* risk score r: probability < q exactly when r < logit(q).
classifyRiskLevel(r) ==
    IF Lt(r, logitLow) THEN "low"
    ELSE IF Lt(r, logitMedium) THEN "medium"
    ELSE "high"

\* calculateChurnConfidence(features), in millionths:
\*   min(days/30, 1)*0.3 + min(activityDecline, 1)*0.3
\*   + min(scoreDecline/50, 1)*0.2 + min(gameAbandonment, 1)*0.2, capped at 1.
calculateChurnConfidence(features) ==
    LET f1 == Times(MathMin(features.daysSinceLastActivity, 30), 10 * Milli)
        f2 == Times(MathMin(features.activityDecline, Milli), 300)
        f3 == Times(MathMin(features.scoreDecline, 50 * Milli), 4)
        f4 == Times(MathMin(features.gameAbandonment, Milli), 200)
    IN CapAtOne(Add(Add(Add(f1, f2), f3), f4))

generateChurnRecommendations(features) ==
    (IF Gt(features.activityDecline, 500) THEN <<"try new games">> ELSE <<>>)
    \o (IF Gt(features.scoreDecline, 20 * Milli) THEN <<"lower the difficulty">> ELSE <<>>)
    \o (IF Gt(features.daysSinceLastActivity, 7) THEN <<"play regularly">> ELSE <<>>)

\* calculateChurnPrediction(features, horizon): probability in whole percents
\* (Math.round(p * 100) / 100), riskLevel from the unrounded probability.
calculateChurnPrediction(features, horizon) ==
    LET r == riskScore(features)
    IN [probability |-> RoundedProbability(r),
        confidence |-> calculateChurnConfidence(features),
        riskLevel |-> classifyRiskLevel(r),
        factors |-> [activityDecline |-> features.activityDecline,
                     scoreDecline |-> features.scoreDecline,
                     sessionDropoff |-> features.sessionDropoff,
                     gameAbandonment |-> features.gameAbandonment,
                     daysSinceLastActivity |-> features.daysSinceLastActivity],
        recommendations |-> generateChurnRecommendations(features),
        horizon |-> horizon]

getDefaultChurnPrediction ==
    [probability |-> 30, confidence |-> 500000, riskLevel |-> "medium",
     factors |-> EmptyObject, recommendations |-> <<>>, horizon |-> 30]


----------------------------------------------------------------------------
(* Difficulty features and difficulty recommendation *)

RECURSIVE CountOf(_, _)
CountOf(array, item) ==
    IF array = <<>> THEN 0
    ELSE (IF Head(array) = item THEN 1 ELSE 0) + CountOf(Tail(array), item)

RECURSIVE KeysOf(_, _)
\* Object.keys(counts): the distinct items in order of first occurrence.
KeysOf(array, seen) ==
    IF array = <<>> THEN seen
    ELSE KeysOf(Tail(array),
                IF \E i \in 1..Len(seen) : seen[i] = Head(array) THEN seen ELSE Append(seen, Head(array)))

RECURSIVE ReduceMostFrequent(_, _, _)
\* keys.reduce((a, b) => counts[a] > counts[b] ? a : b)
ReduceMostFrequent(array, a, keys) ==
    IF keys = <<>> THEN a
    ELSE LET b == Head(keys)
         IN ReduceMostFrequent(array, IF CountOf(array, a) > CountOf(array, b) THEN a ELSE b, Tail(keys))

\* getMostFrequent(array) of a non-empty array.
getMostFrequent(array) ==
    LET keys == KeysOf(array, <<>>) IN ReduceMostFrequent(array, Head(keys), Tail(keys))

calculateImprovementRate(array) ==
    LET recent == LastK(array, 3)
        older == SliceNeg(array, 6, 3)
    IN IF Len(array) < 5 THEN 0
       ELSE IF Len(older) = 0 THEN 0
       ELSE Quot(Sub(mean(recent), mean(older)), MathMax(mean(older), Milli))

calculateChallengePreference(games) ==
    DivBy(mean(Map(games, LAMBDA g : encodeDifficulty(g.difficulty))), 4)

calculateFrustrationLevel(games) ==
    Quot(Len(Filter(games, LAMBDA g : ~g.completed)) + Len(Filter(games, LAMBDA g : g.score < 30)),
         Len(games))

getDefaultDifficultyFeatures ==
    [averageScore |-> 50 * Milli, scoreConsistency |-> 500, preferredDifficulty |-> "medium",
     improvementRate |-> 0, challengePreference |-> 500, frustrationLevel |-> 300]

extractDifficultyFeatures(games, gameType) ==
    LET gameHistory == Filter(games, LAMBDA g : g.gameType = gameType)
        recentGames == LastK(gameHistory, 10)
        scores == Map(recentGames, LAMBDA g : g.score)
        difficulties == Map(recentGames, LAMBDA g : g.difficulty)
    IN IF Len(gameHistory) = 0 THEN getDefaultDifficultyFeatures
       ELSE [averageScore |-> mean(scores),
             scoreConsistency |-> calculateConsistency(scores),
             preferredDifficulty |-> getMostFrequent(difficulties),
             improvementRate |-> calculateImprovementRate(scores),
             challengePreference |-> calculateChallengePreference(recentGames),
             frustrationLevel |-> calculateFrustrationLevel(recentGames)]

generateDifficultyReasoning(features) ==
    IF Gt(features.averageScore, 80 * Milli) THEN "try a harder level"
    ELSE IF Lt(features.averageScore, 40 * Milli) THEN "start from an easier level"
    ELSE "keep this difficulty"

\* calculateDifficultyRecommendation(features): confidence in millionths.
\* The rules of calculateDifficultyRecommendation with the first two tested in
\* the other order.
matchedRuleMediumFirst(features) ==
    LET score == features.averageScore
        consistency == features.scoreConsistency
        improvement == features.improvementRate
    IN IF Gt(score, 60 * Milli) /\ Gt(consistency, 600) THEN 2
       ELSE IF Gt(score, 80 * Milli) /\ Gt(consistency, 800) /\ Gt(improvement, 0) THEN 1
       ELSE IF Lt(score, 40 * Milli) \/ Lt(consistency, 400) THEN 3
       ELSE 0

\* The if / else-if chain of calculateDifficultyRecommendation: the number of
\* the first rule whose condition holds, 0 for the final else.
matchedRule(features) ==
    LET score == features.averageScore
        consistency == features.scoreConsistency
        improvement == features.improvementRate
    IN IF Gt(score, 80 * Milli) /\ Gt(consistency, 800) /\ Gt(improvement, 0) THEN 1
       ELSE IF Gt(score, 60 * Milli) /\ Gt(consistency, 600) THEN 2
       ELSE IF Lt(score, 40 * Milli) \/ Lt(consistency, 400) THEN 3
       ELSE 0

calculateDifficultyRecommendation(features) ==
    LET rule == matchedRule(features)
    IN [recommended |-> CASE rule = 1 -> "hard" [] rule = 2 -> "medium" [] rule = 3 -> "easy" [] OTHER -> "medium",
        confidence |-> CASE rule = 1 -> 900000 [] rule = 2 -> 700000 [] rule = 3 -> 800000 [] OTHER -> 500000,
        reasoning |-> generateDifficultyReasoning(features)]

\* The object recommendDifficulty returns from its catch block.
DefaultDifficultyRecommendation == [recommended |-> "medium", confidence |-> 500000]

----------------------------------------------------------------------------
(* Game recommendation *)

GameTypeSet == {gameTypes[i] : i \in 1..Len(gameTypes)}

\* gameCount / games.length per catalog game, in thousandths (NaN when the
\* history is empty).
analyzeGamePreferences(games) ==
    [gt \in GameTypeSet |-> Quot(Len(Filter(games, LAMBDA g : g.gameType = gt)), Len(games))]

analyzePerformanceByGame(games) ==
    [gt \in GameTypeSet |->
        LET gameScores == Map(Filter(games, LAMBDA g : g.gameType = gt), LAMBDA g : g.score)
        IN IF Len(gameScores) > 0 THEN DivBy(mean(gameScores), 100) ELSE 0]

analyzeEngagementByGame(games) ==
    [gt \in GameTypeSet |-> Quot(Len(Filter(games, LAMBDA g : g.gameType = gt)), Len(games))]

calculateExplorationTendency(games) ==
    Quot(Cardinality({games[i].gameType : i \in 1..Len(games)}), 5)

calculateOverallSkillLevel(games) == DivBy(mean(Map(games, LAMBDA g : g.score)), 100)

\* min(totalPlayTime / (7 * 60 * 60), 1) over the last 7 days.
calculateTimeAvailability(games, t) ==
    MathMin(Quot(Sum(Map(WithinDays(games, 7, t), LAMBDA g : g.playTime)), 7 * 60 * 60), Milli)

extractGameRecommendationFeatures(games, t) ==
    [gamePreferences |-> analyzeGamePreferences(games),
     performanceByGame |-> analyzePerformanceByGame(games),
     engagementByGame |-> analyzeEngagementByGame(games),
     explorationTendency |-> calculateExplorationTendency(games),
     skillLevel |-> calculateOverallSkillLevel(games),
     timeAvailability |-> calculateTimeAvailability(games, t)]

\* x || 0: NaN and 0 are falsy.
OrZero(x) == IF IsNaN(x) THEN 0 ELSE x

\* performance * 0.4 + engagement * 0.3 + preference * 0.3 of one catalog
\* game, in units of 1e-4.
gameScore(features, gameType) ==
    LET performance == OrZero(features.performanceByGame[gameType])
        engagement == OrZero(features.engagementByGame[gameType])
        preference == OrZero(features.gamePreferences[gameType])
    IN performance * 4 + engagement * 3 + preference * 3

RECURSIVE InsertByScoreDescUnstable(_, _)
\* An insertion that puts a game before the games of equal score.
InsertByScoreDescUnstable(sorted, g) ==
    IF sorted = <<>> THEN <<g>>
    ELSE IF sorted[Len(sorted)].score > g.score THEN Append(sorted, g)
    ELSE Append(InsertByScoreDescUnstable(SubSeq(sorted, 1, Len(sorted) - 1), g), sorted[Len(sorted)])

RECURSIVE InsertByScoreDesc(_, _)
\* One step of the sort: g goes after every game whose score is not lower.
InsertByScoreDesc(sorted, g) ==
    IF sorted = <<>> THEN <<g>>
    ELSE IF sorted[Len(sorted)].score >= g.score THEN Append(sorted, g)
    ELSE Append(InsertByScoreDesc(SubSeq(sorted, 1, Len(sorted) - 1), g), sorted[Len(sorted)])

RECURSIVE SortByScoreDesc(_)
\* gameScores.sort((a, b) => b.score - a.score): descending and stable.
SortByScoreDesc(gameScores) ==
    IF gameScores = <<>> THEN <<>>
    ELSE InsertByScoreDesc(SortByScoreDesc(SubSeq(gameScores, 1, Len(gameScores) - 1)),
                           gameScores[Len(gameScores)])

\* Math.min(score * 1.2, 1) in millionths, of a score in units of 1e-4.
calculateGameRecommendationConfidence(score) == MathMin(score * 120, Micro)

getGameName(gameType) == gameType

\* calculateGameRecommendations(features, count) for count >= 0.
calculateGameRecommendations(features, count) ==
    LET gameScores == [i \in 1..Len(gameTypes) |->
                          [gameType |-> gameTypes[i], score |-> gameScore(features, gameTypes[i])]]
        sorted == SortByScoreDesc(gameScores)
        top == Slice(sorted, 0, IF count < Len(sorted) THEN count ELSE Len(sorted))
    IN [index \in 1..Len(top) |->
           [rank |-> index,
            gameType |-> top[index].gameType,
            gameName |-> getGameName(top[index].gameType),
            score |-> top[index].score,
            confidence |-> calculateGameRecommendationConfidence(top[index].score)]]

\* getDefaultGameRecommendations(count): score 0.5 in units of 1e-4.
getDefaultGameRecommendations(count) ==
    LET defaultGames == <<"memory_game", "reaction_game", "calculation_game">>
        top == Slice(defaultGames, 0, IF count < 3 THEN count ELSE 3)
    IN [index \in 1..Len(top) |->
           [rank |-> index, gameType |-> top[index], gameName |-> getGameName(top[index]),
            score |-> 5000, confidence |-> 500000]]

----------------------------------------------------------------------------
(* Engagement features and engagement prediction *)

\* The outcome of a step that may throw: the value it returns, or the
\* exception it throws.
Returned(value) == [threw |-> FALSE, value |-> value]

Thrown(message) == [threw |-> TRUE, value |-> message]

\* new Date(timestamp).getDay() in UTC: day 0 of the epoch was a Thursday.
getDay(timestamp) == ((timestamp \div Days(1)) + 4) % 7

calculateDailyActivity(games) ==
    [day \in 1..7 |-> Len(Filter(games, LAMBDA g : getDay(g.timestamp) = day - 1))]

calculateGameDiversity(games) ==
    Quot(Cardinality({games[i].gameType : i \in 1..Len(games)}), 5)

\* uniqueDays / max(totalDays, 1); a day is a UTC calendar day.
calculateReturnRate(games) ==
    Quot(Cardinality({games[i].timestamp \div Days(1) : i \in 1..Len(games)}),
         IF Len(games) > 1 THEN Len(games) ELSE 1)

calculateSocialEngagement == 500

calculateAchievementRate == 300

extractEngagementFeatures(games, t) ==
    LET recentActivity == WithinDays(games, 7, t)
        dailyActivity == calculateDailyActivity(recentActivity)
        sessionPatterns == analyzeSessionPatterns(recentActivity)
    IN [dailyPlayFrequency |-> mean(dailyActivity),
        sessionDuration |-> mean(sessionPatterns.durations),
        sessionFrequency |-> sessionPatterns.frequency,
        gameDiversity |-> calculateGameDiversity(recentActivity),
        completionRate |-> calculateCompletionRate(recentActivity),
        returnRate |-> calculateReturnRate(games),
        socialEngagement |-> calculateSocialEngagement,
        achievementRate |-> calculateAchievementRate]

\* features.dailyPlayFrequency * 0.1
calculateEngagementTrend(features) == DivBy(features.dailyPlayFrequency, 10)

\* calculateSeasonalEffect(horizon) evaluates new Date().getDayOfYear(); Date
\* has no such method and nothing in the repository defines one, so the call
\* throws a TypeError.
calculateSeasonalEffect(horizon) == Thrown("TypeError: getDayOfYear is not a function")

\* min(sessionFrequency / 7, 1) * 0.8 + 0.2, in millionths.
calculateEngagementConfidence(features) ==
    Add(Times(MathMin(DivBy(features.sessionFrequency, 7), Milli), 800), 200000)

\* calculateEngagementPrediction(features, horizon), as an outcome: the
\* seasonal effect is evaluated before the result is built, so its exception
\* is the outcome.  prediction is in hundredths (Math.round(x * 100) / 100).
calculateEngagementPrediction(features, horizon) ==
    LET baseEngagement == features.dailyPlayFrequency
        trendEffect == calculateEngagementTrend(features)
        seasonalEffect == calculateSeasonalEffect(horizon)
    IN IF seasonalEffect.threw THEN seasonalEffect
       ELSE LET predictedEngagement == Add(Add(baseEngagement, trendEffect), seasonalEffect.value)
            IN Returned([prediction |-> MathMax(0, DivBy(Add(predictedEngagement, 5), 10)),
                         confidence |-> calculateEngagementConfidence(features),
                         trend |-> IF Gt(trendEffect, 0) THEN "increasing" ELSE "decreasing",
                         factors |-> [baseEngagement |-> baseEngagement, trendEffect |-> trendEffect,
                                      seasonalEffect |-> seasonalEffect.value],
                         horizon |-> horizon])

getDefaultEngagementPrediction ==
    [prediction |-> 50, confidence |-> 500000, trend |-> "stable",
     factors |-> EmptyObject, horizon |-> 7]


----------------------------------------------------------------------------
(* The engine: result cache and asynchronous prediction calls *)

VARIABLES
    now,         \* Date.now(), in minutes
    cache,       \* this.cache: a function from the keys present to results
    lastUpdate,  \* this.lastUpdate
    calls,       \* the calls made so far, each with its position and result
    games,       \* userData.games of a single extraction
    sample,      \* what that extraction and its prediction computed
    input,       \* a feature vector handed to a prediction formula
    output,      \* what the formula returned for it
    previous,    \* the input and output of the application before
    attempts,    \* rateLimiter.attempts: a function from the IPs present to entries
    clock,       \* Date.now() of the middleware, in milliseconds since it was loaded
    reply,       \* what the check that was the last step did with res and next
    jwtSecretSet, \* whether process.env.JWT_SECRET is set
    sessionRows, \* the rows of the sessions table
    dbNow,       \* the clock of the server and its database, in minutes
    request,     \* the request the router is serving, or served last
    logins,      \* the POST /login requests: those under way and what became of the others
    balancer,    \* the LoadBalancer: servers, circuitBreakers, sessionMap, currentIndex
    timers,      \* the recovery timers set and not yet fired: server and due instant
    lbNow,       \* Date.now() of the load balancer, in milliseconds
    routing,     \* the request being forwarded, or forwarded last
    lbLog,       \* when each breaker opened last and how long it had been open when it half-opened
    multiplayer, \* the MultiplayerManager, its sockets and its reconnect timers
    difficultyManager \* the DifficultyManager and the last adjustment it made

engineVars == <<now, cache, lastUpdate, calls>>

extractVars == <<games, sample>>

formulaVars == <<input, output, previous>>

limiterVars == <<attempts, clock, reply>>

authVars == <<jwtSecretSet, sessionRows, dbNow, request>>

balancerVars == <<balancer, timers, lbNow, routing, lbLog>>

gameVars == <<multiplayer, difficultyManager>>

vars == <<now, cache, lastUpdate, calls, games, sample, input, output, previous,
          attempts, clock, reply, jwtSecretSet, sessionRows, dbNow, request, logins,
          balancer, timers, lbNow, routing, lbLog, multiplayer, difficultyManager>>

\* No check was the last step.
NoReply == [kind |-> "none"]

\* The rate limiter as its constructor leaves it.
LimiterIdle ==
    /\ attempts = <<>>
    /\ clock = 0
    /\ reply = NoReply

\* No login has arrived: none waits for db.authenticateUser or
\* bcrypt.compare, and no window has a failed attempt.
NoLogins ==
    [arrived |-> 0, authenticating |-> 0, comparing |-> 0, failed |-> <<>>, status |-> 0]

LoginIdle == logins = NoLogins

\* No manager of the games has been constructed.
GamesIdle ==
    /\ multiplayer = <<>>
    /\ difficultyManager = <<>>

\* No load balancer has been constructed.
BalancerIdle ==
    /\ balancer = <<>>
    /\ timers = {}
    /\ lbNow = 0
    /\ routing = <<>>
    /\ lbLog = <<>>

\* No request has arrived.
NoRequest == [pc |-> "none"]

\* The router before its first request, with an empty sessions table.
AuthIdle ==
    /\ jwtSecretSet = FALSE
    /\ sessionRows = {}
    /\ dbNow = 0
    /\ request = NoRequest

\* The values of the variables a specification does not use.
NoSample == [kind |-> "none", appended |-> 0]

NoInput == [kind |-> "none"]

NoOutput == [done |-> FALSE]

EngineIdle == now = 0 /\ cache = <<>> /\ lastUpdate = 0 /\ calls = <<>>

ExtractIdle == games = <<>> /\ sample = NoSample

FormulaIdle == input = NoInput /\ output = NoOutput /\ previous = NoOutput

\* The most calls made in one run.
MaxCalls == 2

\* The most clock steps in one run, each of ClockStep minutes.
MaxTicks == 1

ClockStep == 24 * 60

\* The instant the engine is constructed at (minutes since the epoch).
NowInit == 29000000 + 0

Users == {"u1"}

\* n records of one game and difficulty, one every `spacing` minutes from
\* `first`, with scores from `score` in steps of `step`.
Series(n, gameType, difficulty, score, step, first, spacing) ==
    [i \in 1..n |-> GameRecord(gameType, difficulty, score + (i - 1) * step, 300, 1, TRUE,
                               first + (i - 1) * spacing)]

\* The histories the record store answers with.
Histories ==
    { <<>>, Series(6, "memory_game", "medium", 40, 10, NowInit - Days(6), Days(1)) }

\* What the fetch of /api/users/<id>/data can come to: a rejected fetch, a
\* response that is not ok, a body without a games array, a body with one.
Responses ==
    {[kind |-> "networkError"], [kind |-> "notOk"], [kind |-> "json", body |-> [error |-> "no data"]]}
    \cup {[kind |-> "json", body |-> [games |-> h]] : h \in Histories}

\* getUserData(userId), given what the fetch comes to.
getUserData(response) ==
    IF response.kind = "networkError" THEN Thrown("TypeError: Failed to fetch")
    ELSE IF response.kind = "notOk" THEN Thrown("Error: Failed to fetch user data")
    ELSE Returned(response.body)

\* userData.games.filter(...) throws when the body has no games array.
HasGames(userData) == "games" \in DOMAIN userData

NoGames == Thrown("TypeError: Cannot read properties of undefined")

\* The cache keys, as the template strings build them.
scoreKey(userId, gameType, difficulty, horizon) ==
    "score_" \o userId \o "_" \o gameType \o "_" \o difficulty \o "_" \o ToString(horizon)

engagementKey(userId, horizon) == "engagement_" \o userId \o "_" \o ToString(horizon)

churnKey(userId, horizon) == "churn_" \o userId \o "_" \o ToString(horizon)

\* this.cache.has(cacheKey) && Date.now() - this.lastUpdate < updateInterval
CacheFresh(cacheKey) == cacheKey \in DOMAIN cache /\ now - lastUpdate < updateInterval

\* A set that writes the prediction over every entry of the map.
CacheSetClobber(m, cacheKey, prediction) ==
    [k \in DOMAIN m \cup {cacheKey} |-> prediction]

\* this.cache.set(cacheKey, prediction)
CacheSet(m, cacheKey, prediction) ==
    [k \in DOMAIN m \cup {cacheKey} |-> IF k = cacheKey THEN prediction ELSE m[k]]

\* The try blocks, from the resolved or rejected fetch to the return, run at
\* instant t.
scoreBody(response, gameType, difficulty, horizon, t) ==
    LET userData == getUserData(response)
    IN IF userData.threw THEN userData
       ELSE IF ~HasGames(userData.value) THEN NoGames
       ELSE Returned(calculateScorePrediction(
                extractScoreFeatures(userData.value.games, gameType, difficulty, t), horizon))

engagementBody(response, horizon, t) ==
    LET userData == getUserData(response)
    IN IF userData.threw THEN userData
       ELSE IF ~HasGames(userData.value) THEN NoGames
       ELSE calculateEngagementPrediction(extractEngagementFeatures(userData.value.games, t), horizon)

churnBody(response, horizon, t) ==
    LET userData == getUserData(response)
    IN IF userData.threw THEN userData
       ELSE IF ~HasGames(userData.value) THEN NoGames
       ELSE Returned(calculateChurnPrediction(extractChurnFeatures(userData.value.games, t), horizon))

difficultyBody(response, gameType) ==
    LET userData == getUserData(response)
    IN IF userData.threw THEN userData
       ELSE IF ~HasGames(userData.value) THEN NoGames
       ELSE Returned(calculateDifficultyRecommendation(
                extractDifficultyFeatures(userData.value.games, gameType)))

gamesBody(response, count, t) ==
    LET userData == getUserData(response)
    IN IF userData.threw THEN userData
       ELSE IF ~HasGames(userData.value) THEN NoGames
       ELSE Returned(calculateGameRecommendations(
                extractGameRecommendationFeatures(userData.value.games, t), count))

\* TryCatch without its catch block: the exception reaches the caller.
TryCatchRethrows(outcome, fallback) ==
    IF outcome.threw THEN [settled |-> "rejected", value |-> EmptyObject, caught |-> FALSE]
    ELSE [settled |-> "resolved", value |-> outcome.value, caught |-> FALSE]

\* How an async method settles when its try block comes to `outcome` and its
\* catch block returns `fallback`.
TryCatch(outcome, fallback) ==
    IF outcome.threw THEN [settled |-> "resolved", value |-> fallback, caught |-> TRUE]
    ELSE [settled |-> "resolved", value |-> outcome.value, caught |-> FALSE]

\* The calls before this one that asked for the same cached prediction, have
\* returned a computed result, and did so less than updateInterval ago.
EarlierSame(op, cacheKey) ==
    {i \in 1..Len(calls) : /\ calls[i].pc = "done"
                           /\ calls[i].op = op /\ calls[i].key = cacheKey
                           /\ ~calls[i].threw
                           /\ calls[i].age < updateInterval}

Latest(S) == IF S = {} THEN 0 ELSE CHOOSE i \in S : \A j \in S : j <= i

\* A call as it starts: it either returns the cached value at once or awaits
\* getUserData.  stale, hadKey and prior (the latest of EarlierSame, or 0)
\* record the circumstances of the call; history is the games array its fetch
\* brought; age is the time since it returned, counted up to updateInterval.
NewCall(op, args, cacheKey, cached) ==
    LET hit == cached /\ CacheFresh(cacheKey)
    IN [op |-> op, args |-> args, key |-> cacheKey,
        pc |-> IF hit THEN "done" ELSE "await",
        stale |-> now - lastUpdate >= updateInterval,
        hadKey |-> cacheKey \in DOMAIN cache,
        prior |-> IF cached THEN Latest(EarlierSame(op, cacheKey)) ELSE 0,
        fetches |-> IF hit THEN 0 ELSE 1,
        fetched |-> FALSE, history |-> <<>>, threw |-> FALSE, caught |-> FALSE, stored |-> FALSE,
        settled |-> IF hit THEN "resolved" ELSE "pending",
        value |-> IF hit THEN cache[cacheKey] ELSE EmptyObject,
        age |-> 0]

\* The synchronous start of an async method, up to its first await.
Begin(op, args, cacheKey, cached) ==
    /\ Len(calls) < MaxCalls
    /\ calls' = Append(calls, NewCall(op, args, cacheKey, cached))
    /\ UNCHANGED <<now, cache, lastUpdate>>
    /\ UNCHANGED <<extractVars, formulaVars, limiterVars, authVars, logins, balancerVars, gameVars>>

\* The fetch brought the user's records: a body with a games array.
FetchedGames(response) == response.kind = "json" /\ HasGames(response.body)

\* The rest of the method once the fetch has come to `response`: the try
\* block's outcome, the cache.set of a cached prediction, the return.
Finish(c, response, outcome, fallback, cached) ==
    LET end == TryCatch(outcome, fallback)
        newCache == IF cached /\ ~outcome.threw
                    THEN CacheSet(cache, calls[c].key, outcome.value) ELSE cache
    IN /\ cache' = newCache
       /\ calls' = [calls EXCEPT ![c] =
                       [@ EXCEPT !.pc = "done", !.fetched = FetchedGames(response),
                                 !.history = IF FetchedGames(response)
                                             THEN response.body.games ELSE <<>>,
                                 !.threw = outcome.threw,
                                 !.caught = end.caught, !.settled = end.settled,
                                 !.value = end.value, !.age = 0,
                                 !.stored = (calls[c].key \in DOMAIN newCache
                                             /\ newCache[calls[c].key] = end.value)]]
       /\ UNCHANGED <<now, lastUpdate>>
       /\ UNCHANGED <<extractVars, formulaVars, limiterVars, authVars, logins, balancerVars, gameVars>>

Awaiting(c, op) == c \in 1..Len(calls) /\ calls[c].op = op /\ calls[c].pc = "await"

\* The parameters the model calls the engine with.
ScoreGameTypes == {"memory_game"}

ScoreDifficulties == {"medium"}

ScoreHorizons == {7, 30}

EngagementHorizons == {7}

ChurnHorizons == {30}

GameCounts == {3}

predictScore ==
    \E userId \in Users, gameType \in ScoreGameTypes, difficulty \in ScoreDifficulties,
       horizon \in ScoreHorizons :
        Begin("predictScore",
              [userId |-> userId, gameType |-> gameType, difficulty |-> difficulty, horizon |-> horizon],
              scoreKey(userId, gameType, difficulty, horizon), TRUE)

predictScoreResume ==
    \E c \in 1..Len(calls), response \in Responses :
        /\ Awaiting(c, "predictScore")
        /\ Finish(c, response,
                  scoreBody(response, calls[c].args.gameType, calls[c].args.difficulty,
                            calls[c].args.horizon, now),
                  getDefaultPrediction, TRUE)

predictEngagement ==
    \E userId \in Users, horizon \in EngagementHorizons :
        Begin("predictEngagement", [userId |-> userId, horizon |-> horizon],
              engagementKey(userId, horizon), TRUE)

predictEngagementResume ==
    \E c \in 1..Len(calls), response \in Responses :
        /\ Awaiting(c, "predictEngagement")
        /\ Finish(c, response, engagementBody(response, calls[c].args.horizon, now),
                  getDefaultEngagementPrediction, TRUE)

predictChurnRisk ==
    \E userId \in Users, horizon \in ChurnHorizons :
        Begin("predictChurnRisk", [userId |-> userId, horizon |-> horizon],
              churnKey(userId, horizon), TRUE)

predictChurnRiskResume ==
    \E c \in 1..Len(calls), response \in Responses :
        /\ Awaiting(c, "predictChurnRisk")
        /\ Finish(c, response, churnBody(response, calls[c].args.horizon, now),
                  getDefaultChurnPrediction, TRUE)

recommendDifficulty ==
    \E userId \in Users, gameType \in ScoreGameTypes :
        Begin("recommendDifficulty", [userId |-> userId, gameType |-> gameType], "", FALSE)

recommendDifficultyResume ==
    \E c \in 1..Len(calls), response \in Responses :
        /\ Awaiting(c, "recommendDifficulty")
        /\ Finish(c, response, difficultyBody(response, calls[c].args.gameType),
                  DefaultDifficultyRecommendation, FALSE)

recommendGames ==
    \E userId \in Users, count \in GameCounts :
        Begin("recommendGames", [userId |-> userId, count |-> count], "", FALSE)

recommendGamesResume ==
    \E c \in 1..Len(calls), response \in Responses :
        /\ Awaiting(c, "recommendGames")
        /\ Finish(c, response, gamesBody(response, calls[c].args.count, now),
                  getDefaultGameRecommendations(calls[c].args.count), FALSE)

\* Time passes.
Tick ==
    /\ now < NowInit + MaxTicks * ClockStep
    /\ now' = now + ClockStep
    /\ calls' = [c \in 1..Len(calls) |->
                    IF calls[c].pc = "done" /\ calls[c].age < updateInterval
                    THEN [calls[c] EXCEPT !.age = IF @ + ClockStep < updateInterval
                                                  THEN @ + ClockStep ELSE updateInterval]
                    ELSE calls[c]]
    /\ UNCHANGED <<cache, lastUpdate>>
    /\ UNCHANGED <<extractVars, formulaVars, limiterVars, authVars, logins, balancerVars, gameVars>>

\* The engine as its constructor leaves it, at instant NowInit.
Init ==
    /\ now = NowInit
    /\ cache = <<>>
    /\ lastUpdate = 0
    /\ calls = <<>>
    /\ ExtractIdle
    /\ FormulaIdle
    /\ LimiterIdle
    /\ AuthIdle
    /\ LoginIdle
    /\ BalancerIdle
    /\ GamesIdle

Next ==
    \/ predictScore
    \/ predictScoreResume
    \/ predictEngagement
    \/ predictEngagementResume
    \/ predictChurnRisk
    \/ predictChurnRiskResume
    \/ recommendDifficulty
    \/ recommendDifficultyResume
    \/ recommendGames
    \/ recommendGamesResume
    \/ Tick

Spec == Init /\ [][Next]_vars

----------------------------------------------------------------------------
(* Single extractions: a history is fetched, grows by the games the user     *)
(* plays, and one feature extraction with its prediction runs on it.         *)

\* The most records appended to a starting history.
MaxAppended == 3

\* The histories an extraction starts from: none, three qualifying records,
\* ten rising scores one per day, five scores of zero.
StartHistories ==
    { <<>>,
      Series(3, "memory_game", "medium", 40, 20, NowInit - Days(5), Days(1)),
      Series(10, "memory_game", "medium", 40, 5, NowInit - Days(10) + 60, Days(1)),
      Series(5, "memory_game", "medium", 0, 0, NowInit - Days(3), 10) }

\* The records a user may add: in and out of the 30-day window (one exactly
\* 30 days old), of the requested game and difficulty and of others, in and
\* out of a running session, in any order of timestamps.
RecordChoices ==
    { GameRecord("memory_game", "medium", 0, 120, 4, TRUE, NowInit - Days(2)),
      GameRecord("memory_game", "medium", 100, 300, 0, FALSE, NowInit - 20),
      GameRecord("memory_game", "medium", 60, 200, 1, TRUE, NowInit - 5),
      GameRecord("memory_game", "hard", 80, 400, 2, TRUE, NowInit - Days(10)),
      GameRecord("reaction_game", "medium", 20, 60, 0, FALSE, NowInit - Days(8)),
      GameRecord("memory_game", "medium", 90, 300, 1, TRUE, NowInit - Days(30)) }

SampleGameTypes == {"memory_game", "reaction_game"}

SampleHorizons == {7, 30}

SampleCounts == {3, 5}

RecordGame ==
    \E r \in RecordChoices :
        /\ sample.kind = "none"
        /\ sample.appended < MaxAppended
        /\ games' = Append(games, r)
        /\ sample' = [sample EXCEPT !.appended = @ + 1]
        /\ UNCHANGED <<engineVars, formulaVars, limiterVars, authVars, logins, balancerVars, gameVars>>

\* extractScoreFeatures and calculateScorePrediction, as predictScore runs
\* them on the fetched games.
ScoreSample ==
    \E gameType \in ScoreGameTypes, difficulty \in ScoreDifficulties, horizon \in SampleHorizons :
        /\ sample.kind = "none"
        /\ LET features == extractScoreFeatures(games, gameType, difficulty, now)
           IN sample' = [kind |-> "score", before |-> games, gameType |-> gameType, difficulty |-> difficulty,
                         horizon |-> horizon, features |-> features,
                         prediction |-> calculateScorePrediction(features, horizon)]
        /\ UNCHANGED games
        /\ UNCHANGED <<engineVars, formulaVars, limiterVars, authVars, logins, balancerVars, gameVars>>

\* extractEngagementFeatures and calculateEngagementPrediction; the sort in
\* groupIntoSessions is of the filtered copy.
EngagementSample ==
    \E horizon \in EngagementHorizons :
        /\ sample.kind = "none"
        /\ LET features == extractEngagementFeatures(games, now)
           IN sample' = [kind |-> "engagement", before |-> games, horizon |-> horizon, features |-> features,
                         outcome |-> calculateEngagementPrediction(features, horizon)]
        /\ UNCHANGED games
        /\ UNCHANGED <<engineVars, formulaVars, limiterVars, authVars, logins, balancerVars, gameVars>>

\* extractChurnFeatures and calculateChurnPrediction; calculateSessionDropoff
\* sorts userData.games in place.
ChurnSample ==
    \E horizon \in ChurnHorizons :
        /\ sample.kind = "none"
        /\ LET features == extractChurnFeatures(games, now)
           IN sample' = [kind |-> "churn", before |-> games, horizon |-> horizon, features |-> features,
                         sessions |-> groupIntoSessions(games),
                         prediction |-> calculateChurnPrediction(features, horizon)]
        /\ games' = SortByTimestamp(games)
        /\ UNCHANGED <<engineVars, formulaVars, limiterVars, authVars, logins, balancerVars, gameVars>>

DifficultySample ==
    \E gameType \in SampleGameTypes :
        /\ sample.kind = "none"
        /\ LET features == extractDifficultyFeatures(games, gameType)
           IN sample' = [kind |-> "difficulty", before |-> games, gameType |-> gameType, features |-> features,
                         prediction |-> calculateDifficultyRecommendation(features)]
        /\ UNCHANGED games
        /\ UNCHANGED <<engineVars, formulaVars, limiterVars, authVars, logins, balancerVars, gameVars>>

GamesSample ==
    \E count \in SampleCounts :
        /\ sample.kind = "none"
        /\ LET features == extractGameRecommendationFeatures(games, now)
           IN sample' = [kind |-> "games", before |-> games, count |-> count, features |-> features,
                         prediction |-> calculateGameRecommendations(features, count)]
        /\ UNCHANGED games
        /\ UNCHANGED <<engineVars, formulaVars, limiterVars, authVars, logins, balancerVars, gameVars>>

ExtractInit ==
    /\ now = NowInit
    /\ cache = <<>>
    /\ lastUpdate = 0
    /\ calls = <<>>
    /\ games \in StartHistories
    /\ sample = NoSample
    /\ FormulaIdle
    /\ LimiterIdle
    /\ AuthIdle
    /\ LoginIdle
    /\ BalancerIdle
    /\ GamesIdle

ExtractNext ==
    \/ RecordGame
    \/ ScoreSample
    \/ EngagementSample
    \/ ChurnSample
    \/ DifficultySample
    \/ GamesSample

SpecExtract == ExtractInit /\ [][ExtractNext]_vars

----------------------------------------------------------------------------
(* Single formulas: a feature vector is handed to one prediction formula,    *)
(* and for churn the same user is looked at again after more idle days.      *)

\* The most times a churn prediction is repeated after more idle days.
MaxLater == 2

\* The days added between two churn predictions of one user.
IdleSteps == {1, 7}

\* Churn feature vectors: activity falling and rising, a score decline of 0
\* and of 25 points, sessions shrinking and growing, abandonment of 0, 0.5 and
\* 0/0, and idle days below, at and above the 30 of the formula.
ChurnInputs ==
    { [kind |-> "churn", later |-> 0, horizon |-> 30,
       features |-> [activityDecline |-> a, scoreDecline |-> s, sessionDropoff |-> p,
                     gameAbandonment |-> g, daysSinceLastActivity |-> d]] :
        a \in {0 - 3000, 0, 1000}, s \in {0, 25 * Milli}, p \in {0 - 200, 0, 500},
        g \in {0, 500, NaN}, d \in {0, 26, 30, 38, 999} }

\* Difficulty feature vectors: scores and consistencies on both sides of and
\* exactly at every threshold of the rules, and NaN.
DifficultyInputs ==
    { [kind |-> "difficulty",
       features |-> [averageScore |-> s, scoreConsistency |-> c, preferredDifficulty |-> "medium",
                     improvementRate |-> i, challengePreference |-> 500, frustrationLevel |-> 300]] :
        s \in {0, 39 * Milli, 40 * Milli, 50 * Milli, 60 * Milli, 61 * Milli, 80 * Milli, 81 * Milli, NaN},
        c \in {0, 399, 400, 500, 600, 601, 800, 801, NaN},
        i \in {0 - 100, 0, 1, NaN} }

\* The shares of play per catalog game: an empty history (0/0 each), an even
\* spread, and all play in one game.
PlayShares ==
    { [gt \in GameTypeSet |-> NaN],
      [gt \in GameTypeSet |-> 200],
      [gt \in GameTypeSet |-> IF gt = "pattern_memory" THEN Milli ELSE 0] }

\* Recommendation feature vectors: every catalog game with a mean score of 0,
\* 50 or 90, so that ties of two and more games occur at every rank.
GameInputs ==
    { [kind |-> "games", count |-> n,
       features |-> [gamePreferences |-> s, performanceByGame |-> f, engagementByGame |-> s]] :
        n \in {1, 3, 5}, s \in PlayShares, f \in [GameTypeSet -> {0, 500, 900}] }

\* Score feature vectors: a falling, flat and rising trend, a variance of 0,
\* 25 and 500, a recent improvement below, at and above 0, a consistency of
\* 0, 0.5, 1 and NaN (all scores zero), over horizons below, at and above 7.
ScoreInputs ==
    { [kind |-> "score", horizon |-> h,
       features |-> [averageScore |-> a, scoreTrend |-> t, scoreVariance |-> v,
                     averagePlayTime |-> 300 * Milli, averageMistakes |-> 3 * Milli,
                     completionRate |-> 700, recentImprovement |-> i, consistency |-> c,
                     difficultyLevel |-> 2, gameExperience |-> 5]] :
        h \in {1, 7, 30}, a \in {0, 10 * Milli, 50 * Milli, 62500},
        t \in {0 - 5 * Milli, 0, 5 * Milli}, v \in {0, 25 * Milli, 500 * Milli},
        i \in {0 - 10 * Milli, 0, 25 * Milli}, c \in {0, 500, Milli, NaN} }

ScorePrediction ==
    /\ input.kind = "score"
    /\ ~output.done
    /\ output' = [done |-> TRUE, result |-> calculateScorePrediction(input.features, input.horizon)]
    /\ UNCHANGED <<input, previous>>
    /\ UNCHANGED <<engineVars, extractVars, limiterVars, authVars, logins, balancerVars, gameVars>>

ChurnPrediction ==
    /\ input.kind = "churn"
    /\ ~output.done
    /\ output' = [done |-> TRUE, days |-> input.features.daysSinceLastActivity,
                  result |-> calculateChurnPrediction(input.features, input.horizon)]
    /\ UNCHANGED <<input, previous>>
    /\ UNCHANGED <<engineVars, extractVars, limiterVars, authVars, logins, balancerVars, gameVars>>

\* The same features with more days since the last activity.
ChurnPredictionLater ==
    \E k \in IdleSteps :
        /\ input.kind = "churn"
        /\ output.done
        /\ input.later < MaxLater
        /\ input' = [input EXCEPT !.later = @ + 1,
                                  !.features.daysSinceLastActivity = @ + k]
        /\ previous' = output
        /\ output' = [done |-> TRUE, days |-> input'.features.daysSinceLastActivity,
                      result |-> calculateChurnPrediction(input'.features, input.horizon)]
        /\ UNCHANGED <<engineVars, extractVars, limiterVars, authVars, logins, balancerVars, gameVars>>

DifficultyRecommendation ==
    /\ input.kind = "difficulty"
    /\ ~output.done
    /\ output' = [done |-> TRUE, result |-> calculateDifficultyRecommendation(input.features)]
    /\ UNCHANGED <<input, previous>>
    /\ UNCHANGED <<engineVars, extractVars, limiterVars, authVars, logins, balancerVars, gameVars>>

GameRecommendations ==
    /\ input.kind = "games"
    /\ ~output.done
    /\ output' = [done |-> TRUE, result |-> calculateGameRecommendations(input.features, input.count)]
    /\ UNCHANGED <<input, previous>>
    /\ UNCHANGED <<engineVars, extractVars, limiterVars, authVars, logins, balancerVars, gameVars>>

FormulaInit ==
    /\ EngineIdle
    /\ ExtractIdle
    /\ input \in ChurnInputs \cup DifficultyInputs \cup GameInputs \cup ScoreInputs
    /\ output = NoOutput
    /\ previous = NoOutput
    /\ LimiterIdle
    /\ AuthIdle
    /\ LoginIdle
    /\ BalancerIdle
    /\ GamesIdle

FormulaNext ==
    \/ ChurnPrediction
    \/ ScorePrediction
    \/ ChurnPredictionLater
    \/ DifficultyRecommendation
    \/ GameRecommendations

SpecFormula == FormulaInit /\ [][FormulaNext]_vars

----------------------------------------------------------------------------
(* The login rate limiter, src/api/middleware.js *)

\* config.security.maxLoginAttempts: parseInt(process.env.MAX_LOGIN_ATTEMPTS || '5')
maxLoginAttempts == 5

\* this.maxAttempts = config.security.maxLoginAttempts
maxAttempts == maxLoginAttempts

\* this.timeoutMinutes = 15
timeoutMinutes == 15

\* const timeoutMs = this.timeoutMinutes * 60 * 1000
timeoutMs == timeoutMinutes * 60 * 1000

\* The addresses requests come from: req.ip || req.connection.remoteAddress.
IPs == {"10.0.0.1", "10.0.0.2"}

\* The milliseconds between two readings of the clock: two and a half minutes.
LimiterStep == 150 * 1000

\* The most clock steps in one run.
MaxLimiterTicks == 7

\* The most attempts counted for one address beyond maxAttempts.
MaxExtraAttempts == 1

\* Math.ceil(ms / 1000 / 60) for ms >= 0
CeilMinutes(ms) == (ms + 59999) \div 60000

\* A delete that empties the map.
AttemptsDeleteAll(m, ip) == <<>>

\* this.attempts.delete(ip)
AttemptsDelete(m, ip) == [k \in DOMAIN m \ {ip} |-> m[k]]

\* The refusal with one attempt more than the limit before it applies.
limitedAboveMax(userAttempts, t) ==
    userAttempts.count > maxAttempts /\ t - userAttempts.firstAttempt < timeoutMs

\* userAttempts.count >= this.maxAttempts && timeSinceFirstAttempt < timeoutMs
limited(userAttempts, t) ==
    userAttempts.count >= maxAttempts /\ t - userAttempts.firstAttempt < timeoutMs

\* The body of the 429 response.
LimitExceeded(userAttempts, t) ==
    LET remainingTime == CeilMinutes(timeoutMs - (t - userAttempts.firstAttempt))
    IN [error |-> [message |-> "limitExceeded", minutes |-> remainingTime],
        remainingTime |-> remainingTime]

\* check(req, res, next): reply keeps the entry the check found (seen), the
\* status and body given to res, how often next was called, and the reset
\* that was the step before the check, if one was (follows).
check ==
    \E ip \in IPs :
        LET present == ip \in DOMAIN attempts
            userAttempts == attempts[ip]
            refuse == present /\ limited(userAttempts, clock)
            expired == present /\ clock - userAttempts.firstAttempt >= timeoutMs
        IN /\ reply' = [kind |-> "check", ip |-> ip, at |-> clock,
                        seen |-> IF present THEN <<userAttempts>> ELSE <<>>,
                        status |-> IF refuse THEN 429 ELSE 0,
                        body |-> IF refuse THEN <<LimitExceeded(userAttempts, clock)>> ELSE <<>>,
                        nextCalls |-> IF refuse THEN 0 ELSE 1,
                        follows |-> IF reply.kind = "reset"
                                    THEN <<[ip |-> reply.ip, before |-> reply.before]>>
                                    ELSE <<>>]
           /\ attempts' = IF ~refuse /\ expired THEN AttemptsDelete(attempts, ip) ELSE attempts
           /\ UNCHANGED clock
           /\ UNCHANGED <<engineVars, extractVars, formulaVars, authVars, logins, balancerVars, gameVars>>

\* The map after increment(ip) at instant t.
AttemptsIncrement(m, ip, t) ==
    IF ip \in DOMAIN m
    THEN [m EXCEPT ![ip].count = @ + 1]
    ELSE [k \in DOMAIN m \cup {ip} |->
             IF k = ip THEN [count |-> 1, firstAttempt |-> t] ELSE m[k]]

\* increment(ip)
increment ==
    \E ip \in IPs :
        /\ ip \in DOMAIN attempts => attempts[ip].count < maxAttempts + MaxExtraAttempts
        /\ attempts' = AttemptsIncrement(attempts, ip, clock)
        /\ reply' = NoReply
        /\ UNCHANGED clock
        /\ UNCHANGED <<engineVars, extractVars, formulaVars, authVars, logins, balancerVars, gameVars>>

\* reset(ip): reply keeps the address and the map the reset found.
reset ==
    \E ip \in IPs :
        /\ attempts' = AttemptsDelete(attempts, ip)
        /\ reply' = [kind |-> "reset", ip |-> ip, before |-> attempts]
        /\ UNCHANGED clock
        /\ UNCHANGED <<engineVars, extractVars, formulaVars, authVars, logins, balancerVars, gameVars>>

\* cleanup(), which the interval timer calls
cleanup ==
    /\ attempts' = [k \in {i \in DOMAIN attempts : ~(clock - attempts[i].firstAttempt >= timeoutMs)}
                        |-> attempts[k]]
    /\ reply' = NoReply
    /\ UNCHANGED clock
    /\ UNCHANGED <<engineVars, extractVars, formulaVars, authVars, logins, balancerVars, gameVars>>

\* Time passes between two calls of the limiter.
LimiterTick ==
    /\ clock < MaxLimiterTicks * LimiterStep
    /\ clock' = clock + LimiterStep
    /\ reply' = NoReply
    /\ UNCHANGED attempts
    /\ UNCHANGED <<engineVars, extractVars, formulaVars, authVars, logins, balancerVars, gameVars>>

LimiterInit ==
    /\ EngineIdle
    /\ ExtractIdle
    /\ FormulaIdle
    /\ LimiterIdle
    /\ AuthIdle
    /\ LoginIdle
    /\ BalancerIdle
    /\ GamesIdle

LimiterNext ==
    \/ check
    \/ increment
    \/ reset
    \/ cleanup
    \/ LimiterTick

SpecLimiter == LimiterInit /\ [][LimiterNext]_vars

----------------------------------------------------------------------------
(* Claims about the engine's calls and cache *)

CachedOps == {"predictScore", "predictEngagement", "predictChurnRisk"}

\* The default result of a call's prediction type.
FallbackOf(call) ==
    CASE call.op = "predictScore" -> getDefaultPrediction
      [] call.op = "predictEngagement" -> getDefaultEngagementPrediction
      [] call.op = "predictChurnRisk" -> getDefaultChurnPrediction
      [] call.op = "recommendDifficulty" -> DefaultDifficultyRecommendation
      [] call.op = "recommendGames" -> getDefaultGameRecommendations(call.args.count)

\* C1: no call of predictScore, predictEngagement, predictChurnRisk,
\* recommendDifficulty or recommendGames ever rejects, and a call whose fetch
\* failed or whose feature extraction or prediction threw resolves with the
\* default result of its prediction type.
C1_FailureYieldsDefault ==
    \A c \in 1..Len(calls) :
        /\ calls[c].settled \in {"pending", "resolved"}
        /\ (calls[c].pc = "done" /\ calls[c].threw) =>
               (calls[c].settled = "resolved" /\ calls[c].value = FallbackOf(calls[c]))

\* C1's case: a call whose fetch failed and a call whose prediction step threw
\* after a successful fetch have both returned.
C1_Witness ==
    \E a, b \in 1..Len(calls) :
        /\ calls[a].pc = "done" /\ calls[a].threw /\ ~calls[a].fetched
        /\ calls[a].op = "predictChurnRisk"
        /\ calls[b].pc = "done" /\ calls[b].threw /\ calls[b].fetched

\* C2: a call of a cached prediction that follows, within the refresh
\* interval, a successful call with the same user and parameters does not
\* fetch the user's records and returns the result of that earlier call.
C2_SecondCallServedFromCache ==
    \A c \in 1..Len(calls) :
        (calls[c].op \in CachedOps /\ calls[c].prior # 0) =>
            /\ calls[c].fetches = 0
            /\ calls[c].pc = "done" => calls[c].value = calls[calls[c].prior].value

\* C3: a call of a cached prediction made when lastUpdate is at least the
\* refresh interval in the past fetches the records and, once they have
\* arrived, returns a recomputed prediction that it has stored under its key.
C3_StaleCallRecomputesAndStores ==
    \A c \in 1..Len(calls) :
        (calls[c].op \in CachedOps /\ calls[c].stale) =>
            /\ calls[c].fetches = 1
            /\ (calls[c].pc = "done" /\ calls[c].fetched) =>
                   (~calls[c].caught /\ calls[c].stored)

\* C3's case for the key already present, which predictScore and
\* predictChurnRisk do recompute and overwrite.
C3_Witness ==
    \E c \in 1..Len(calls) :
        /\ calls[c].op \in CachedOps /\ calls[c].stale /\ calls[c].hadKey
        /\ calls[c].pc = "done" /\ calls[c].fetched /\ calls[c].stored

----------------------------------------------------------------------------
(* Claims about feature extraction and the prediction formulas *)

\* The records of the history that match the score sample's game type and
\* difficulty and are less than 30 days old.
QualifyingRecords ==
    {i \in 1..Len(games) : /\ games[i].gameType = sample.gameType
                           /\ games[i].difficulty = sample.difficulty
                           /\ games[i].timestamp > now - Days(30)}

\* C4: when fewer than five of the user's records match the requested game
\* type and difficulty and lie inside the 30-day window, score feature
\* extraction returns the fixed default vector: average score 50, trend 0,
\* variance 25, play time 300, mistakes 3, completion rate 0.7, improvement 0,
\* consistency 0.5, difficulty level 2, game experience 5.
C4_FewRecordsYieldDefaultFeatures ==
    (sample.kind = "score" /\ Cardinality(QualifyingRecords) < 5) =>
        sample.features =
            [averageScore |-> 50000, scoreTrend |-> 0, scoreVariance |-> 25000,
             averagePlayTime |-> 300000, averageMistakes |-> 3000, completionRate |-> 700,
             recentImprovement |-> 0, consistency |-> 500, difficultyLevel |-> 2,
             gameExperience |-> 5]

\* C4's case: four qualifying records among six or more, one exactly 30 days old, the others
\* of another game or difficulty.
C4_Witness ==
    /\ sample.kind = "score"
    /\ Cardinality(QualifyingRecords) = 4
    /\ Len(games) >= 6
    /\ \E i \in 1..Len(games) : games[i].timestamp = now - Days(30)

\* A confidence in millionths that is a number between 0 and 1.
InUnitInterval(c) == ~IsNaN(c) /\ 0 <= c /\ c <= Micro

\* C5: every result of a score, churn, difficulty or game prediction carries a
\* confidence c with 0 <= c <= 1.
C5_ConfidenceInUnitInterval ==
    /\ sample.kind \in {"score", "churn", "difficulty"} =>
           InUnitInterval(sample.prediction.confidence)
    /\ sample.kind = "games" =>
           \A i \in 1..Len(sample.prediction) : InUnitInterval(sample.prediction[i].confidence)

\* C6: the probability of a churn prediction is a number strictly greater
\* than 0 and strictly less than 1 (here in whole percents).
C6_ChurnProbabilityStrictlyInside ==
    sample.kind = "churn" =>
        /\ ~IsNaN(sample.prediction.probability)
        /\ 0 < sample.prediction.probability
        /\ sample.prediction.probability < 100

\* C7: with all other features equal, a churn prediction for more days since
\* the last activity never has a lower probability than one for fewer days.
C7_MoreIdleDaysNeverLowerProbability ==
    (/\ input.kind = "churn"
     /\ previous.done
     /\ previous.days <= output.days
     /\ ~IsNaN(previous.result.probability)
     /\ ~IsNaN(output.result.probability)) =>
        previous.result.probability <= output.result.probability

\* x > t and x < t of numbers in the model's units; false for NaN.
Above(x, t) == ~IsNaN(x) /\ x > t

Below(x, t) == ~IsNaN(x) /\ x < t

\* C8: a difficulty recommendation is 'hard' with confidence 0.9 when the
\* average score exceeds 80, the consistency exceeds 0.8 and the improvement
\* rate is positive; otherwise 'medium' with 0.7 when the score exceeds 60 and
\* the consistency 0.6; otherwise 'easy' with 0.8 when the score is below 40
\* or the consistency below 0.4; otherwise 'medium' with 0.5.
C8_DifficultyRuleCascade ==
    (input.kind = "difficulty" /\ output.done) =>
        LET s == input.features.averageScore
            c == input.features.scoreConsistency
            i == input.features.improvementRate
            r == output.result
        IN IF Above(s, 80000) /\ Above(c, 800) /\ Above(i, 0)
               THEN r.recommended = "hard" /\ r.confidence = 900000
           ELSE IF Above(s, 60000) /\ Above(c, 600)
               THEN r.recommended = "medium" /\ r.confidence = 700000
           ELSE IF Below(s, 40000) \/ Below(c, 400)
               THEN r.recommended = "easy" /\ r.confidence = 800000
           ELSE r.recommended = "medium" /\ r.confidence = 500000

\* C8's case: the first rule fails on the improvement rate alone, so the
\* second rule decides.
C8_Witness ==
    /\ input.kind = "difficulty"
    /\ output.done
    /\ input.features.averageScore = 81000
    /\ input.features.scoreConsistency = 801
    /\ input.features.improvementRate = 0
    /\ output.result.recommended = "medium"

\* The position of a game in the catalog.
CatalogIndex(gt) == CHOOSE i \in 1..Len(gameTypes) : gameTypes[i] = gt

\* The game types a recommendation list names.
Listed(r) == {r[i].gameType : i \in 1..Len(r)}

\* C9: a game recommendation for N of the five catalog games lists the N
\* highest-scoring games in non-increasing order of score with ranks 1..N in
\* sequence, and games of equal score appear in catalog order.
C9_TopGamesInOrder ==
    (input.kind = "games" /\ output.done) =>
        LET r == output.result
            scoreOf(gt) == gameScore(input.features, gt)
        IN /\ Len(r) = input.count
           /\ \A i \in 1..Len(r) : /\ r[i].rank = i
                                   /\ r[i].gameType \in GameTypeSet
                                   /\ r[i].score = scoreOf(r[i].gameType)
           /\ \A i, j \in 1..Len(r) :
                  i < j => /\ r[i].gameType # r[j].gameType
                           /\ r[i].score >= r[j].score
                           /\ r[i].score = r[j].score =>
                                  CatalogIndex(r[i].gameType) < CatalogIndex(r[j].gameType)
           /\ \A gt \in GameTypeSet \ Listed(r) : \A i \in 1..Len(r) :
                  /\ scoreOf(gt) <= r[i].score
                  /\ scoreOf(gt) = r[i].score => CatalogIndex(r[i].gameType) < CatalogIndex(gt)

\* C9's case: three of five games are listed, the first two tie, and the
\* third ties with a game that is left out.
C9_Witness ==
    /\ input.kind = "games"
    /\ output.done
    /\ input.count = 3
    /\ Len(output.result) = 3
    /\ output.result[1].score = output.result[2].score
    /\ output.result[2].score > output.result[3].score
    /\ \E gt \in GameTypeSet \ Listed(output.result) :
           gameScore(input.features, gt) = output.result[3].score

\* C10 as stated: the risk level classifies the probability the result
\* carries: 'low' below 0.3, 'medium' from 0.3 to below 0.6, 'high' otherwise.
C10_RiskLevelOfResultProbability ==
    (input.kind = "churn" /\ output.done) =>
        LET p == output.result.probability
        IN output.result.riskLevel =
               (IF Below(p, 30) THEN "low" ELSE IF Below(p, 60) THEN "medium" ELSE "high")

\* C10 amended: the risk level classifies the probability before it is
\* rounded to two decimals.  A result whose probability is below 0.3 is 'low',
\* one strictly between 0.3 and 0.6 is 'medium', one above 0.6 or NaN is
\* 'high'; a result with probability exactly 0.30 is 'low' or 'medium' and
\* one with exactly 0.60 is 'medium' or 'high'.
C10_RiskLevelOfUnroundedProbability ==
    (input.kind = "churn" /\ output.done) =>
        LET p == output.result.probability
            level == output.result.riskLevel
        IN /\ level \in {"low", "medium", "high"}
           /\ Below(p, 30) => level = "low"
           /\ p = 30 => level \in {"low", "medium"}
           /\ (Above(p, 30) /\ Below(p, 60)) => level = "medium"
           /\ p = 60 => level \in {"medium", "high"}
           /\ (Above(p, 60) \/ IsNaN(p)) => level = "high"

\* C10's case: a probability that rounds up to 0.30 and is classified 'low'.
C10_Witness ==
    /\ input.kind = "churn"
    /\ output.done
    /\ output.result.probability = 30
    /\ output.result.riskLevel = "low"

----------------------------------------------------------------------------
(* Claims about sessions and the record history *)

RECURSIVE Concat(_)
\* The sequences of a sequence, joined in order.
Concat(ss) == IF ss = <<>> THEN <<>> ELSE Head(ss) \o Concat(Tail(ss))

\* s is ascending by timestamp and holds the records of t, each as often.
AscendingArrangement(s, t) ==
    /\ Len(s) = Len(t)
    /\ \A i \in 1..Len(s) - 1 : s[i].timestamp <= s[i + 1].timestamp
    /\ \A r \in {t[i] : i \in 1..Len(t)} :
           Cardinality({i \in 1..Len(s) : s[i] = r}) = Cardinality({i \in 1..Len(t) : t[i] = r})

\* C11: groupIntoSessions splits the records, taken in ascending timestamp
\* order, into sessions: every record is in exactly one session, two
\* consecutive records share a session exactly when their timestamps differ by
\* less than 30 minutes, and a session's duration is the number of its records,
\* so the durations add up to the number of records.
C11_SessionsPartitionTheRecords ==
    sample.kind = "churn" =>
        LET sessions == sample.sessions
            ordered == Concat([k \in 1..Len(sessions) |-> sessions[k].games])
            ends == {Sum([j \in 1..k |-> Len(sessions[j].games)]) : k \in 1..Len(sessions)}
        IN /\ AscendingArrangement(ordered, sample.before)
           /\ \A k \in 1..Len(sessions) :
                  /\ Len(sessions[k].games) >= 1
                  /\ sessions[k].duration = Len(sessions[k].games)
           /\ Sum([k \in 1..Len(sessions) |-> sessions[k].duration]) = Len(sample.before)
           /\ \A i \in 1..Len(ordered) - 1 :
                  (i \notin ends) <=> (ordered[i + 1].timestamp - ordered[i].timestamp < 30)

\* C11's case: a history that arrives out of order and falls into three or
\* more sessions, one of them of three or more records whose first and last
\* are 30 minutes or more apart.
C11_Witness ==
    /\ sample.kind = "churn"
    /\ Len(sample.sessions) >= 3
    /\ \E i \in 1..Len(sample.before) - 1 :
           sample.before[i].timestamp > sample.before[i + 1].timestamp
    /\ \E k \in 1..Len(sample.sessions) :
           /\ sample.sessions[k].duration >= 3
           /\ sample.sessions[k].endTime - sample.sessions[k].startTime >= 30

\* C12: after a feature extractor has run, the caller's games array holds the
\* same records in the same order as before the call.
C12_HistoryUnchanged ==
    sample.kind # "none" => games = sample.before

----------------------------------------------------------------------------
(* Claims about the engagement prediction *)

\* C13: when the user's records are fetched, predictEngagement returns a
\* result computed by calculateEngagementPrediction, whose trend label is
\* 'increasing' for a positive trend term and 'decreasing' otherwise.
C13_EngagementTrendLabel ==
    \A c \in 1..Len(calls) :
        (calls[c].op = "predictEngagement" /\ calls[c].pc = "done" /\ calls[c].fetched) =>
            LET features == extractEngagementFeatures(calls[c].history, now - calls[c].age)
            IN calls[c].value.trend =
                   (IF Gt(calculateEngagementTrend(features), 0) THEN "increasing" ELSE "decreasing")

----------------------------------------------------------------------------
(* Claims about the score prediction *)

\* C14: for every feature vector and horizon calculateScorePrediction returns
\* prediction = max(0, round(P)) and range = [max(0, round(P - M)),
\* round(P + M)] with P = averageScore + scoreTrend * horizon
\* + recentImprovement * min(horizon, 7) + consistency * 10 and
\* M = scoreVariance * 0.5 * (1 + sqrt(horizon) * 0.1); prediction and
\* range.min are never negative.  (When a feature is NaN so are P and the
\* three numbers, which then are not negative either.)
C14_ScorePredictionFormula ==
    (input.kind = "score" /\ output.done) =>
        LET f == input.features
            h == input.horizon
            r == output.result
            P == f.averageScore + f.scoreTrend * h
                 + f.recentImprovement * (IF h < 7 THEN h ELSE 7) + f.consistency * 10
            M == MulDiv(f.scoreVariance, 10 * Milli + MathSqrt(h * Milli), 20 * Milli)
            round(x) == (x + 500) \div 1000
            max0(x) == IF x < 0 THEN 0 ELSE x
        IN IF IsNaN(f.consistency)
           THEN IsNaN(r.prediction) /\ IsNaN(r.range.min) /\ IsNaN(r.range.max)
           ELSE /\ r.prediction = max0(round(P))
                /\ r.range.min = max0(round(P - M))
                /\ r.range.max = round(P + M)
                /\ r.prediction >= 0
                /\ r.range.min >= 0

\* C14's case: a falling trend over 30 days takes P - M and P below 0 while
\* P + M stays above: prediction and range.min are floored at 0.
C14_Witness ==
    /\ input.kind = "score"
    /\ output.done
    /\ input.horizon = 30
    /\ input.features.scoreTrend < 0
    /\ input.features.scoreVariance > 0
    /\ output.result.prediction = 0
    /\ output.result.range.min = 0
    /\ output.result.range.max > 0

\* The scores of the records of the sampled history that match the score
\* sample's game type and difficulty and are less than 30 days old, in the
\* order of the history.
QualifyingScores ==
    LET qualifies(g) == /\ g.gameType = sample.gameType
                        /\ g.difficulty = sample.difficulty
                        /\ g.timestamp > now - Days(30)
        kept == SelectSeq(sample.before, qualifies)
    IN [i \in 1..Len(kept) |-> kept[i].score]

\* C15: when the qualifying records of 'memory_game' at 'medium' are ten,
\* one per day, with scores 40, 45, ..., 85 in this order, the 7-day score
\* prediction is strictly greater than the mean of these scores and its
\* confidence lies in [0, 1].
C15_RisingScoresPredictAboveMean ==
    (/\ sample.kind = "score"
     /\ sample.gameType = "memory_game"
     /\ sample.difficulty = "medium"
     /\ sample.horizon = 7
     /\ QualifyingScores = <<40, 45, 50, 55, 60, 65, 70, 75, 80, 85>>) =>
        /\ sample.prediction.prediction * 10 > 40 + 45 + 50 + 55 + 60 + 65 + 70 + 75 + 80 + 85
        /\ InUnitInterval(sample.prediction.confidence)

\* C15's case: the ten records, among records of another difficulty and
\* another game, predicted 7 days ahead.
C15_Witness ==
    /\ sample.kind = "score"
    /\ sample.horizon = 7
    /\ QualifyingScores = <<40, 45, 50, 55, 60, 65, 70, 75, 80, 85>>
    /\ Len(sample.before) = 12
    /\ sample.features.averageScore = 62500
    /\ sample.prediction.prediction > 85

----------------------------------------------------------------------------
(* Claims about the statistics helpers and the difficulty features *)

\* C16: for every list of scores feature extraction hands to the statistics
\* helpers, the variance is at least 0 and the consistency is a number in
\* [0, 1].
C16_VarianceAndConsistencyInRange ==
    /\ sample.kind = "score" =>
           /\ ~IsNaN(sample.features.scoreVariance)
           /\ sample.features.scoreVariance >= 0
           /\ ~IsNaN(sample.features.consistency)
           /\ 0 <= sample.features.consistency
           /\ sample.features.consistency <= Milli
    /\ sample.kind = "difficulty" =>
           /\ ~IsNaN(sample.features.scoreConsistency)
           /\ 0 <= sample.features.scoreConsistency
           /\ sample.features.scoreConsistency <= Milli

\* C17: when fewer than five records of the requested game type are in the
\* history, extractDifficultyFeatures returns the default difficulty features:
\* average score 50, consistency 0.5, preferred difficulty 'medium',
\* improvement rate 0, challenge preference 0.5, frustration level 0.3.
C17_FewRecordsYieldDefaultDifficultyFeatures ==
    (/\ sample.kind = "difficulty"
     /\ Cardinality({i \in 1..Len(sample.before) :
                        sample.before[i].gameType = sample.gameType}) < 5) =>
        sample.features =
            [averageScore |-> 50000, scoreConsistency |-> 500, preferredDifficulty |-> "medium",
             improvementRate |-> 0, challengePreference |-> 500, frustrationLevel |-> 300]

----------------------------------------------------------------------------
(* Claims about the engine as a function of its inputs *)

\* C18: two calls of one operation with the same parameters whose fetches
\* brought the same record history return the same result, whatever the
\* wall-clock time and the cache contents were when each ran.
C18_SameHistorySameResult ==
    \A a, b \in 1..Len(calls) :
        (/\ calls[a].pc = "done" /\ calls[b].pc = "done"
         /\ calls[a].op = calls[b].op /\ calls[a].args = calls[b].args
         /\ calls[a].fetched /\ calls[b].fetched
         /\ calls[a].history = calls[b].history) =>
            calls[a].value = calls[b].value

\* The cache key of a call's request, from its operation and parameters.
KeyOf(call) ==
    CASE call.op = "predictScore" ->
             scoreKey(call.args.userId, call.args.gameType, call.args.difficulty, call.args.horizon)
      [] call.op = "predictEngagement" -> engagementKey(call.args.userId, call.args.horizon)
      [] call.op = "predictChurnRisk" -> churnKey(call.args.userId, call.args.horizon)

\* The instants the clock of the model takes.
Instants == {NowInit + k * ClockStep : k \in 0..MaxTicks}

\* v is a prediction of the call's own type, for its own parameters, from the
\* history its own fetch brought, computed at some instant.
OwnResult(call, v) ==
    \E t \in Instants :
        LET response == [kind |-> "json", body |-> [games |-> call.history]]
            outcome == CASE call.op = "predictScore" ->
                                scoreBody(response, call.args.gameType, call.args.difficulty,
                                          call.args.horizon, t)
                         [] call.op = "predictEngagement" ->
                                engagementBody(response, call.args.horizon, t)
                         [] call.op = "predictChurnRisk" ->
                                churnBody(response, call.args.horizon, t)
        IN ~outcome.threw /\ outcome.value = v

\* C19: however overlapping calls of the cached predictions interleave at
\* their awaits, a key belongs to one request only, every cache entry is the
\* result a call with that key computed for its own request, and every call
\* returns either its type's default or the result computed for its own
\* request.
C19_CacheWellFormed ==
    /\ \A a, b \in 1..Len(calls) :
           (calls[a].op \in CachedOps /\ calls[b].op \in CachedOps /\ calls[a].key = calls[b].key) =>
               (calls[a].op = calls[b].op /\ calls[a].args = calls[b].args)
    /\ \A k \in DOMAIN cache :
           \E c \in 1..Len(calls) :
               /\ calls[c].op \in CachedOps /\ calls[c].pc = "done"
               /\ calls[c].key = k /\ KeyOf(calls[c]) = k
               /\ cache[k] = calls[c].value
               /\ calls[c].fetched /\ OwnResult(calls[c], cache[k])
    /\ \A c \in 1..Len(calls) :
           (calls[c].op \in CachedOps /\ calls[c].pc = "done") =>
               IF calls[c].caught THEN calls[c].value = FallbackOf(calls[c])
               ELSE calls[c].fetched /\ OwnResult(calls[c], calls[c].value)

\* C19's case: two calls for one key were both under way before either had
\* stored (neither found the key), both computed, from different histories,
\* and the entry is the result of one of them.
C19_Witness ==
    \E a, b \in 1..Len(calls) :
        /\ a # b
        /\ calls[a].op \in CachedOps /\ calls[a].key = calls[b].key
        /\ calls[a].pc = "done" /\ calls[b].pc = "done"
        /\ ~calls[a].hadKey /\ ~calls[b].hadKey
        /\ ~calls[a].caught /\ ~calls[b].caught
        /\ calls[a].fetches = 1 /\ calls[b].fetches = 1
        /\ calls[a].value # calls[b].value
        /\ cache[calls[a].key] = calls[b].value

----------------------------------------------------------------------------
(* Claims about the login rate limiter *)

\* C20: a check for an address with no entry, or with fewer than 5 recorded
\* attempts, calls next() and sends no response; a check for an address with
\* 5 or more recorded attempts whose first attempt is less than 15 minutes
\* old responds 429 with the limit-exceeded error and does not call next().
C20_CheckAdmitsOrRefuses ==
    reply.kind = "check" =>
        /\ (reply.seen = <<>> \/ (reply.seen # <<>> /\ reply.seen[1].count < 5)) =>
               (reply.nextCalls = 1 /\ reply.status = 0 /\ reply.body = <<>>)
        /\ (/\ reply.seen # <<>>
            /\ reply.seen[1].count >= 5
            /\ reply.at - reply.seen[1].firstAttempt < 15 * 60 * 1000) =>
               /\ reply.status = 429
               /\ reply.body # <<>>
               /\ reply.body[1].error.message = "limitExceeded"
               /\ reply.nextCalls = 0

\* C20's case: a check refused an address with exactly 5 attempts, the first
\* of them seven and a half minutes old, while the other address had fewer.
C20_Witness ==
    /\ reply.kind = "check"
    /\ reply.seen # <<>>
    /\ reply.seen[1].count = 5
    /\ reply.at - reply.seen[1].firstAttempt = 3 * LimiterStep
    /\ reply.status = 429
    /\ reply.nextCalls = 0
    /\ reply.body[1].remainingTime = 8
    /\ \E other \in DOMAIN attempts : other # reply.ip /\ attempts[other].count = 4

\* C21: a reset removes the entry of its address and leaves the entries of
\* the other addresses as they were, and the check for that address that
\* follows the reset calls next() and does not respond 429, whatever number
\* of attempts was recorded before.
C21_ResetAdmitsNextCheck ==
    /\ reply.kind = "reset" =>
           /\ reply.ip \notin DOMAIN attempts
           /\ DOMAIN attempts = DOMAIN reply.before \ {reply.ip}
           /\ \A other \in DOMAIN attempts : attempts[other] = reply.before[other]
    /\ (reply.kind = "check" /\ reply.follows # <<>> /\ reply.follows[1].ip = reply.ip) =>
           /\ reply.seen = <<>>
           /\ reply.nextCalls = 1
           /\ reply.status # 429

\* C21's case: an address with 5 or more attempts, the first of them less
\* than 15 minutes old, was reset and then checked, while the other address
\* keeps its own 5 attempts.
C21_Witness ==
    /\ reply.kind = "check"
    /\ reply.follows # <<>>
    /\ reply.follows[1].ip = reply.ip
    /\ reply.ip \in DOMAIN reply.follows[1].before
    /\ limited(reply.follows[1].before[reply.ip], reply.at)
    /\ reply.nextCalls = 1
    /\ \E other \in DOMAIN attempts : other # reply.ip /\ attempts[other].count = 5

----------------------------------------------------------------------------
(* The authentication middlewares, src/api/middleware.js, and the router
   that uses them, src/db/backup_db.js *)

\* A header, cookie or array element that is not there.
Undefined == "<undefined>"

\* The tokens of the model: the key each is signed with, the minute it
\* expires and its payload. "config" is config.jwt.secret, with which the
\* login route signs; "default" is the literal 'default_secret'.
Jwt ==
    [tokA |-> [key |-> "config", exp |-> 30, payload |-> [userId |-> 1, role |-> "user"]],
     tokD |-> [key |-> "default", exp |-> 30, payload |-> [userId |-> 2, role |-> "admin"]],
     tokX |-> [key |-> "forged", exp |-> 30, payload |-> [userId |-> 1, role |-> "admin"]]]

\* jwt.verify(token, secret) succeeds
Verifies(token, key, t) ==
    /\ token \in DOMAIN Jwt
    /\ Jwt[token].key = key
    /\ t < Jwt[token].exp

\* The key behind process.env.JWT_SECRET || 'default_secret' in checkAuth:
\* config.jwt.secret is the same variable when it is set.
checkAuthKey == IF jwtSecretSet THEN "config" ELSE "default"

\* The authorization headers of the model, as header.split(' ') leaves them;
\* <<>> is a request without the header and <<"">> an empty header.
AuthorizationHeaders ==
    { <<>>, <<"">>, <<"Bearer">>, <<"Bearer", "tokA">>, <<"Bearer", "tokD">>,
      <<"Bearer", "tokX">>, <<"Basic", "tokA">> }

\* !authHeader
NoHeader(header) == header = <<>> \/ header = <<"">>

\* authHeader.split(' ')[1]
SplitToken(header) == IF Len(header) >= 2 THEN header[2] ELSE Undefined

\* The x-csrf-token header and the csrf_token cookie of a request.
CsrfPairs == { <<Undefined, Undefined>>, <<"c1", "c1">>, <<"c1", "c2">> }

\* The routes behind checkAuth.
ProtectedRoutes ==
    { <<"GET", "/users">>, <<"POST", "/users">>, <<"POST", "/records">>,
      <<"GET", "/records">>, <<"GET", "/analytics">>, <<"GET", "/reports">> }

\* The status a route handler answers with.
HandlerStatuses(route) ==
    IF route[1] = "POST" THEN {201, 400, 500} ELSE {200, 500}

\* The minutes between two readings of the server's clock.
AuthStep == 15 * 1

\* The most clock steps in one run.
MaxAuthTicks == 2

\* datetime("now", "+30 minutes")
sessionMinutes == 30

\* The most rows the sessions table holds at a time.
MaxSessions == 2

\* A request as it arrives, before any middleware has run.
Arrived(mw, route, header, csrf) ==
    [pc |-> "arrived", mw |-> mw, method |-> route[1], path |-> route[2],
     authorization |-> header, csrfHeader |-> csrf[1], csrfCookie |-> csrf[2],
     token |-> Undefined, status |-> 0, by |-> "none", nextCalls |-> 0,
     user |-> <<>>, handlerRan |-> FALSE, session |-> {}, arrivedAt |-> dbNow, at |-> dbNow]

\* res.status(code).json(...) by the named middleware or handler
Respond(r, code, by) == [r EXCEPT !.pc = "done", !.status = code, !.by = by]

\* An authenticateToken that answers a failed verification as a missing token.
authenticateTokenAlways401(r, t) ==
    LET token == IF NoHeader(r.authorization) THEN Undefined ELSE SplitToken(r.authorization)
    IN IF token = Undefined \/ token = ""
       THEN Respond(r, 401, "authenticateToken")
       ELSE IF ~Verifies(token, "config", t)
            THEN Respond([r EXCEPT !.token = token], 401, "authenticateToken")
            ELSE [r EXCEPT !.pc = "done", !.token = token,
                           !.user = <<Jwt[token].payload>>, !.nextCalls = @ + 1]

\* authenticateToken(req, res, next)
authenticateToken(r, t) ==
    LET token == IF NoHeader(r.authorization) THEN Undefined ELSE SplitToken(r.authorization)
    IN IF token = Undefined \/ token = ""
       THEN Respond(r, 401, "authenticateToken")
       ELSE IF ~Verifies(token, "config", t)
            THEN Respond([r EXCEPT !.token = token], 403, "authenticateToken")
            ELSE [r EXCEPT !.pc = "done", !.token = token,
                           !.user = <<Jwt[token].payload>>, !.nextCalls = @ + 1]

\* csrfProtection(req, res, next): TRUE when it answers 403
csrfRefuses(r) ==
    /\ r.method \in {"POST", "PUT", "DELETE"}
    /\ \/ r.csrfHeader = Undefined
       \/ r.csrfCookie = Undefined
       \/ r.csrfHeader # r.csrfCookie

\* checkAuth(req, res, next) up to its await of db.query
checkAuthBegin(r, t) ==
    IF NoHeader(r.authorization)
    THEN Respond(r, 401, "checkAuth")
    ELSE LET token == SplitToken(r.authorization)
         IN IF ~Verifies(token, checkAuthKey, t)
            THEN Respond([r EXCEPT !.token = token], 401, "checkAuth")
            ELSE [r EXCEPT !.pc = "query", !.token = token]

\* A request to a protected route arrives and runs through the router's
\* middlewares: sanitizeMiddleware, csrfProtection, then checkAuth up to its
\* await.
Receive ==
    \E route \in ProtectedRoutes, header \in AuthorizationHeaders, csrf \in CsrfPairs :
        LET r == Arrived("checkAuth", route, header, csrf)
        IN /\ request.pc \in {"none", "done"}
           /\ request' = IF csrfRefuses(r) THEN Respond(r, 403, "csrfProtection")
                         ELSE checkAuthBegin(r, dbNow)
           /\ UNCHANGED <<jwtSecretSet, sessionRows, dbNow>>
           /\ UNCHANGED <<engineVars, extractVars, formulaVars, limiterVars, logins, balancerVars, gameVars>>

\* checkAuth from the result of db.query on: the rows of the token that have
\* not expired, or a rejected query; then next() and the route handler.
checkAuthResume ==
    /\ request.pc = "query"
    /\ \/ request' = Respond([request EXCEPT !.at = dbNow], 401, "checkAuth")
       \/ LET session == {row \in sessionRows :
                            row.session_token = request.token /\ row.expires_at > dbNow}
              seen == [request EXCEPT !.session = session, !.at = dbNow]
          IN IF session = {}
             THEN request' = Respond(seen, 401, "checkAuth")
             ELSE \E code \in HandlerStatuses(<<request.method, request.path>>) :
                      request' = Respond([seen EXCEPT !.user = <<Jwt[request.token].payload>>,
                                                      !.nextCalls = @ + 1,
                                                      !.handlerRan = TRUE],
                                         code, "handler")
    /\ UNCHANGED <<jwtSecretSet, sessionRows, dbNow>>
    /\ UNCHANGED <<engineVars, extractVars, formulaVars, limiterVars, logins, balancerVars, gameVars>>

\* authenticateToken applied to a request
Authenticate ==
    \E header \in AuthorizationHeaders :
        /\ request.pc \in {"none", "done"}
        /\ request' = authenticateToken(
                          Arrived("authenticateToken", <<"GET", "/">>, header, <<Undefined, Undefined>>),
                          dbNow)
        /\ UNCHANGED <<jwtSecretSet, sessionRows, dbNow>>
        /\ UNCHANGED <<engineVars, extractVars, formulaVars, limiterVars, logins, balancerVars, gameVars>>

\* The login route after a password matched: it signs a token with
\* config.jwt.secret and inserts the session row.
InsertSession ==
    \E token \in {t \in DOMAIN Jwt : Jwt[t].key = "config"} :
        /\ Cardinality(sessionRows) < MaxSessions
        /\ sessionRows' = sessionRows \cup
               {[session_token |-> token, expires_at |-> dbNow + sessionMinutes]}
        /\ UNCHANGED <<jwtSecretSet, dbNow, request>>
        /\ UNCHANGED <<engineVars, extractVars, formulaVars, limiterVars, logins, balancerVars, gameVars>>

\* POST /logout: DELETE FROM sessions WHERE session_token = ?
logout ==
    \E token \in {"tokA", "tokD"} :
        /\ sessionRows' = {row \in sessionRows : row.session_token # token}
        /\ UNCHANGED <<jwtSecretSet, dbNow, request>>
        /\ UNCHANGED <<engineVars, extractVars, formulaVars, limiterVars, logins, balancerVars, gameVars>>

\* Time passes on the server.
AuthTick ==
    /\ dbNow < MaxAuthTicks * AuthStep
    /\ dbNow' = dbNow + AuthStep
    /\ UNCHANGED <<jwtSecretSet, sessionRows, request>>
    /\ UNCHANGED <<engineVars, extractVars, formulaVars, limiterVars, logins, balancerVars, gameVars>>

AuthInit ==
    /\ EngineIdle
    /\ ExtractIdle
    /\ FormulaIdle
    /\ LimiterIdle
    /\ jwtSecretSet \in BOOLEAN
    /\ sessionRows = {}
    /\ dbNow = 0
    /\ request = NoRequest
    /\ LoginIdle
    /\ BalancerIdle
    /\ GamesIdle

AuthNext ==
    \/ Receive
    \/ checkAuthResume
    \/ Authenticate
    \/ InsertSession
    \/ logout
    \/ AuthTick

SpecAuth == AuthInit /\ [][AuthNext]_vars

----------------------------------------------------------------------------
(* Claims about authentication *)

\* The request carries a token: a non-empty second word in its
\* authorization header.
HasToken(r) == Len(r.authorization) >= 2 /\ r.authorization[2] # ""

\* C22: authenticateToken has three outcomes: without a token, status 401
\* and no next(); with a token that fails verification, status 403 and no
\* next(); with a valid token, req.user is the decoded payload and next() is
\* called exactly once with no error status.
C22_AuthenticateTokenOutcomes ==
    (request.pc = "done" /\ request.mw = "authenticateToken") =>
        IF ~HasToken(request)
        THEN request.status = 401 /\ request.nextCalls = 0 /\ request.user = <<>>
        ELSE IF ~Verifies(request.authorization[2], "config", request.arrivedAt)
             THEN request.status = 403 /\ request.nextCalls = 0 /\ request.user = <<>>
             ELSE /\ request.user = <<Jwt[request.authorization[2]].payload>>
                  /\ request.nextCalls = 1
                  /\ request.status = 0

\* C22's case: a token signed with the configured secret was accepted after
\* the clock had moved, and its payload is req.user.
C22_Witness ==
    /\ request.pc = "done"
    /\ request.mw = "authenticateToken"
    /\ request.authorization = <<"Bearer", "tokA">>
    /\ request.arrivedAt > 0
    /\ request.user = <<[userId |-> 1, role |-> "user"]>>
    /\ request.nextCalls = 1

\* The five routes the claim names.
ClaimedRoutes ==
    { <<"GET", "/users">>, <<"POST", "/records">>, <<"GET", "/records">>,
      <<"GET", "/analytics">>, <<"GET", "/reports">> }

\* C23: a request to a protected route either is answered with status 401
\* without the route handler running, or its handler runs, and then its
\* token verified and the query returned a session row of that token that
\* had not expired.
C23_UnauthenticatedGets401 ==
    (/\ request.pc = "done"
     /\ request.mw = "checkAuth"
     /\ <<request.method, request.path>> \in ClaimedRoutes) =>
        IF request.handlerRan
        THEN /\ HasToken(request)
             /\ Verifies(request.authorization[2], checkAuthKey, request.arrivedAt)
             /\ request.session # {}
             /\ \A row \in request.session :
                    row.session_token = request.authorization[2] /\ row.expires_at > request.at
        ELSE request.status = 401

----------------------------------------------------------------------------
(* The login route, src/db/backup_db.js, behind rateLimiter.check *)

\* The address the logins of the model come from.
LoginIP == "10.0.0.1"

\* The most login requests in one run.
MaxLogins == 6

\* The most clock steps in one run of the login route, each of timeoutMs.
MaxLoginTicks == 1

\* One more failed attempt in the window that began at firstAttempt.
FailedIn(failed, firstAttempt) ==
    [w \in DOMAIN failed \cup {firstAttempt} |->
        IF w \in DOMAIN failed
        THEN (IF w = firstAttempt THEN failed[w] + 1 ELSE failed[w])
        ELSE 1]

\* The logins after the 401 answer of a failed attempt, counted in the
\* window of the entry that rateLimiter.increment(clientIP) left.
LoginFailed(l, m) ==
    [l EXCEPT !.failed = FailedIn(@, m[LoginIP].firstAttempt), !.status = 401]

\* A POST /login arrives: rateLimiter.check, then the handler up to its
\* await of db.authenticateUser, or its 400 for a body that is not valid.
LoginReceive ==
    LET present == LoginIP \in DOMAIN attempts
        refuse == present /\ limited(attempts[LoginIP], clock)
        expired == present /\ clock - attempts[LoginIP].firstAttempt >= timeoutMs
    IN /\ logins.arrived < MaxLogins
       /\ attempts' = IF ~refuse /\ expired THEN AttemptsDelete(attempts, LoginIP) ELSE attempts
       /\ \/ /\ refuse
             /\ logins' = [logins EXCEPT !.arrived = @ + 1, !.status = 429]
          \/ /\ ~refuse
             /\ logins' = [logins EXCEPT !.arrived = @ + 1, !.status = 400]
          \/ /\ ~refuse
             /\ logins' = [logins EXCEPT !.arrived = @ + 1, !.authenticating = @ + 1,
                                         !.status = 0]
       /\ UNCHANGED <<clock, reply>>
       /\ UNCHANGED <<engineVars, extractVars, formulaVars, authVars, balancerVars, gameVars>>

\* The handler of one login from the result of db.authenticateUser on: no
\* such user, an error, or a row and the await of bcrypt.compare.
LoginAuthenticateUser ==
    /\ logins.authenticating > 0
    /\ LET l == [logins EXCEPT !.authenticating = @ - 1]
           m == AttemptsIncrement(attempts, LoginIP, clock)
       IN \/ attempts' = m /\ logins' = LoginFailed(l, m)
          \/ attempts' = attempts /\ logins' = [l EXCEPT !.status = 500]
          \/ attempts' = attempts /\ logins' = [l EXCEPT !.comparing = @ + 1, !.status = 0]
    /\ UNCHANGED <<clock, reply>>
    /\ UNCHANGED <<engineVars, extractVars, formulaVars, authVars, balancerVars, gameVars>>

\* The handler of one login from the result of bcrypt.compare on: no match,
\* an error, or a match, the signed token and its session row.
LoginCompare ==
    /\ logins.comparing > 0
    /\ LET l == [logins EXCEPT !.comparing = @ - 1]
           m == AttemptsIncrement(attempts, LoginIP, clock)
       IN \/ attempts' = m /\ logins' = LoginFailed(l, m) /\ UNCHANGED sessionRows
          \/ attempts' = attempts /\ logins' = [l EXCEPT !.status = 500] /\ UNCHANGED sessionRows
          \/ /\ attempts' = attempts
             /\ logins' = [l EXCEPT !.status = 200]
             /\ sessionRows' = sessionRows \cup
                    {[session_token |-> "tokA",
                      expires_at |-> clock \div 60000 + sessionMinutes]}
    /\ UNCHANGED <<clock, reply>>
    /\ UNCHANGED <<jwtSecretSet, dbNow, request>>
    /\ UNCHANGED <<engineVars, extractVars, formulaVars, balancerVars, gameVars>>

\* Time passes: as long as the limiter's timeout.
LoginTick ==
    /\ clock < MaxLoginTicks * timeoutMs
    /\ clock' = clock + timeoutMs
    /\ UNCHANGED <<attempts, reply, logins>>
    /\ UNCHANGED <<engineVars, extractVars, formulaVars, authVars, balancerVars, gameVars>>

LoginInit ==
    /\ EngineIdle
    /\ ExtractIdle
    /\ FormulaIdle
    /\ LimiterIdle
    /\ AuthIdle
    /\ LoginIdle
    /\ BalancerIdle
    /\ GamesIdle

LoginNext ==
    \/ LoginReceive
    \/ LoginAuthenticateUser
    \/ LoginCompare
    \/ cleanup
    \/ LoginTick

SpecLogin == LoginInit /\ [][LoginNext]_vars

----------------------------------------------------------------------------
(* Claims about the login route *)

\* C24: however concurrent POST /login requests interleave, at most
\* maxLoginAttempts (5) failed attempts of an address are verified in one
\* 15-minute window that begins with the address's first failed attempt.
C24_AtMostMaxFailedAttemptsPerWindow ==
    \A w \in DOMAIN logins.failed : logins.failed[w] <= 5

----------------------------------------------------------------------------
(* The load balancer, src/optimization/load_balancer.js *)

\* config.healthCheckInterval
healthCheckInterval == 30000

\* config.stickySessionTimeout
stickySessionTimeout == 300000

\* config.circuitBreaker.failureThreshold
failureThreshold == 5

\* config.circuitBreaker.recoveryTimeout
recoveryTimeout == 60000

\* config.circuitBreaker.halfOpenMaxRequests
halfOpenMaxRequests == 3

\* The most clock steps in one run of the circuit breaker, each of
\* healthCheckInterval.
MaxBreakerTicks == 5

\* A counter that is only compared with a threshold, kept up to it.
UpTo(n, threshold) == IF n > threshold THEN threshold ELSE n

\* addServer(serverConfig): the fields of the server record that routing
\* reads; the counters and times kept for getStats are left out.
NewServer ==
    [status |-> "healthy", currentConnections |-> 0, maxConnections |-> 100]

\* createCircuitBreaker(), without lastFailureTime, which nothing reads
createCircuitBreaker ==
    [state |-> "closed", failureCount |-> 0, successCount |-> 0]

\* The balancer after addServer for the server id.
addServer(b, id) ==
    [b EXCEPT !.order = Append(@, id),
              !.servers = [k \in DOMAIN @ \cup {id} |-> IF k = id THEN NewServer ELSE @[k]],
              !.circuitBreakers =
                  [k \in DOMAIN @ \cup {id} |-> IF k = id THEN createCircuitBreaker ELSE @[k]]]

\* The constructor and initializeLoadBalancer: the default server.
NewBalancer ==
    addServer([order |-> <<>>, servers |-> <<>>, circuitBreakers |-> <<>>,
               sessionMap |-> <<>>, currentIndex |-> 0],
              "server-1")

\* isCircuitBreakerClosed(serverId)
isCircuitBreakerClosed(b, id) ==
    \/ id \notin DOMAIN b.circuitBreakers
    \/ b.circuitBreakers[id].state \in {"closed", "half-open"}

\* The breaker after updateCircuitBreaker(serverId, result) at instant t.
updatedBreaker(breaker, result, t) ==
    IF result = "success"
    THEN LET counted == [breaker EXCEPT !.failureCount = 0,
                                        !.successCount = UpTo(@ + 1, halfOpenMaxRequests)]
         IN IF counted.state = "half-open" /\ counted.successCount >= halfOpenMaxRequests
            THEN [counted EXCEPT !.state = "closed"]
            ELSE counted
    ELSE LET counted == [breaker EXCEPT !.failureCount = UpTo(@ + 1, failureThreshold)]
         IN IF counted.state = "closed" /\ counted.failureCount >= failureThreshold
            THEN [counted EXCEPT !.state = "open"]
            ELSE IF counted.state = "half-open"
                 THEN [counted EXCEPT !.state = "open"]
                 ELSE counted

\* updateCircuitBreaker(serverId, result): the breakers afterwards
updateCircuitBreaker(b, id, result, t) ==
    IF id \notin DOMAIN b.circuitBreakers THEN b
    ELSE [b EXCEPT !.circuitBreakers[id] = updatedBreaker(@, result, t)]

\* The timers after updateCircuitBreaker left the balancer as b: one more
\* setTimeout of recoveryTimeout whenever the breaker is open afterwards.
timersAfterUpdate(ts, b, id, t) ==
    IF id \in DOMAIN b.circuitBreakers /\ b.circuitBreakers[id].state = "open"
    THEN ts \cup {[serverId |-> id, due |-> t + recoveryTimeout]}
    ELSE ts

\* The log after an update took the breaker from state before to state
\* after: an entry into 'open' is noted with its instant.
logAfterUpdate(log, id, before, after, t) ==
    IF before # "open" /\ after = "open"
    THEN [k \in DOMAIN log \cup {id} |->
            IF k = id THEN [openedAt |-> t, openFor |-> 0 - 1] ELSE log[k]]
    ELSE log

\* What checkServerHealth(server) does from the answer of its fetch on: the
\* answer is ok, or it is not ok or the fetch threw.
HealthChecked(id, ok) ==
    LET result == IF ok THEN "success" ELSE "failure"
        marked == [balancer EXCEPT
                      !.servers[id].status = IF ok THEN "healthy" ELSE "unhealthy"]
        after == updateCircuitBreaker(marked, id, result, lbNow)
    IN /\ balancer' = after
       /\ timers' = timersAfterUpdate(timers, after, id, lbNow)
       /\ lbLog' = logAfterUpdate(lbLog, id, balancer.circuitBreakers[id].state,
                                  after.circuitBreakers[id].state, lbNow)

\* checkServerHealth(server)
checkServerHealth ==
    \E id \in DOMAIN balancer.servers, ok \in BOOLEAN :
        /\ HealthChecked(id, ok)
        /\ UNCHANGED <<lbNow, routing>>
           /\ UNCHANGED <<engineVars, extractVars, formulaVars, limiterVars, authVars, logins, gameVars>>

\* A recovery timer fires: the callback of the setTimeout in
\* updateCircuitBreaker.
RecoveryTimer ==
    \E timer \in timers :
        /\ timer.due <= lbNow
        /\ timers' = timers \ {timer}
        /\ balancer' = [balancer EXCEPT !.circuitBreakers[timer.serverId].state = "half-open",
                                        !.circuitBreakers[timer.serverId].successCount = 0]
        /\ lbLog' = IF balancer.circuitBreakers[timer.serverId].state = "open"
                    THEN [lbLog EXCEPT ![timer.serverId].openFor =
                                           lbNow - lbLog[timer.serverId].openedAt]
                    ELSE lbLog
        /\ UNCHANGED <<lbNow, routing>>
        /\ UNCHANGED <<engineVars, extractVars, formulaVars, limiterVars, authVars, logins, gameVars>>

\* Time passes up to the next health check; the timers that are due have
\* fired before.
BreakerTick ==
    /\ lbNow < MaxBreakerTicks * healthCheckInterval
    /\ \A timer \in timers : timer.due > lbNow
    /\ lbNow' = lbNow + healthCheckInterval
    /\ UNCHANGED <<balancer, timers, routing, lbLog>>
    /\ UNCHANGED <<engineVars, extractVars, formulaVars, limiterVars, authVars, logins, gameVars>>

BreakerInit ==
    /\ EngineIdle
    /\ ExtractIdle
    /\ FormulaIdle
    /\ LimiterIdle
    /\ AuthIdle
    /\ LoginIdle
    /\ balancer = NewBalancer
    /\ timers = {}
    /\ lbNow = 0
    /\ routing = <<>>
    /\ lbLog = <<>>
    /\ GamesIdle

BreakerNext ==
    \/ checkServerHealth
    \/ RecoveryTimer
    \/ BreakerTick

SpecBreaker == BreakerInit /\ [][BreakerNext]_vars

----------------------------------------------------------------------------
(* Claims about the circuit breaker *)

\* C25: whenever a breaker goes from 'open' to 'half-open', it had been
\* open for at least recoveryTimeout (60 s) since it entered 'open', whatever
\* reports of success and failure came in the meantime.
C25_OpenForRecoveryTimeout ==
    \A id \in DOMAIN lbLog :
        lbLog[id].openFor # 0 - 1 => lbLog[id].openFor >= 60000

----------------------------------------------------------------------------
(* Routing, src/optimization/load_balancer.js *)

\* config.maxRetries
maxRetries == 3

\* The session ids of the requests of the model.
SessionIds == {"s1", "s2"}

\* The most clock steps in one run of the routing, each of half the
\* stickySessionTimeout.
MaxRoutingTicks == 2

\* The most requests routed in one run.
MaxRoutes == 3

\* The most health checks in one run of the routing.
MaxChecks == 2

\* No request is being forwarded and none has been.
NoRouting == [pc |-> "idle", routed |-> <<>>, routes |-> 0, checks |-> 0]

\* Array.from(this.servers.values()): the servers in the order they were added
ServerList(b) == b.order

\* isServerHealthy(server)
isServerHealthy(b, id) == b.servers[id].status = "healthy"

\* getAvailableServers()
getAvailableServers(b) ==
    SelectSeq(ServerList(b),
              LAMBDA id : /\ isServerHealthy(b, id)
                          /\ b.servers[id].currentConnections < b.servers[id].maxConnections
                          /\ isCircuitBreakerClosed(b, id))

\* this.servers.get(key) for a key that is a string
ServersGet(b, key) == IF key \in DOMAIN b.servers THEN <<key>> ELSE <<>>

\* A lookup of the sticky server under the serverId of the session entry.
ServersGetOfEntry(b, entry) == ServersGet(b, entry.serverId)

\* this.servers.get(serverId) in getStickyServer, where serverId is what
\* this.sessionMap.get(sessionId) returned: the entry object {serverId,
\* timestamp}, which is no key of the map of servers, so the result is
\* undefined.
ServersGetEntry(b, entry) == <<>>

\* getStickyServer(sessionId): the server it returns, <<>> for null or
\* undefined
getStickyServer(b, sessionId, t) ==
    IF sessionId \in DOMAIN b.sessionMap
    THEN LET session == b.sessionMap[sessionId]
         IN IF t - session.timestamp < stickySessionTimeout
            THEN ServersGetEntry(b, session)
            ELSE <<>>
    ELSE <<>>

\* getStickyServer(sessionId): the balancer it leaves, without the entry
\* when that has timed out
afterGetStickyServer(b, sessionId, t) ==
    IF /\ sessionId \in DOMAIN b.sessionMap
       /\ ~(t - b.sessionMap[sessionId].timestamp < stickySessionTimeout)
    THEN [b EXCEPT !.sessionMap = [k \in DOMAIN @ \ {sessionId} |-> @[k]]]
    ELSE b

\* setStickySession(sessionId, serverId)
setStickySession(b, sessionId, serverId, t) ==
    [b EXCEPT !.sessionMap =
        [k \in DOMAIN @ \cup {sessionId} |->
            IF k = sessionId THEN [serverId |-> serverId, timestamp |-> t] ELSE @[k]]]

\* roundRobin(servers): the index it leaves in currentIndex; servers[index]
\* is the choice, counted from 0
roundRobinIndex(b, servers) == (b.currentIndex + 1) % Len(servers)

\* recordSuccess(server, responseTime)
recordSuccess(b, id, t) ==
    updateCircuitBreaker(b, id, "success", t)

\* recordFailure(server, error)
recordFailure(b, id, t) ==
    updateCircuitBreaker([b EXCEPT !.servers[id].status = "unhealthy"], id, "failure", t)

\* server.currentConnections++ and --
Connections(b, id, by) == [b EXCEPT !.servers[id].currentConnections = @ + by]

\* The request after its answer or its error: what only the forwarding
\* needed is forgotten.
Done(r, error) ==
    [r EXCEPT !.pc = "done", !.error = error, !.server = "", !.original = "",
              !.candidates = <<>>, !.attempt = 0, !.mustFail = FALSE]

\* forwardRequest(server, request) up to its await of sendRequest:
\* currentConnections++, and the request as it waits. A request to a server
\* whose breaker is not closed can only fail.
Forwarding(r, b, id, attempt) ==
    [r EXCEPT !.pc = "sending", !.server = id, !.attempt = attempt,
              !.mustFail = ~isCircuitBreakerClosed(b, id)]

\* The log of the servers the sessions were routed to: the entry of a
\* session stays while the requests keep going to its server within the
\* timeout of the entry, and is replaced otherwise.
Routed(routed, sessionId, id, t) ==
    IF /\ sessionId \in DOMAIN routed
       /\ routed[sessionId].serverId = id
       /\ t - routed[sessionId].at < stickySessionTimeout
    THEN routed
    ELSE [k \in DOMAIN routed \cup {sessionId} |->
            IF k = sessionId THEN [serverId |-> id, at |-> t] ELSE routed[k]]

\* routeRequest(request, {sessionId}) up to the await in forwardRequest, or
\* to its throw when no server is available.
routeRequest ==
    \E sessionId \in SessionIds :
        LET sticky == getStickyServer(balancer, sessionId, lbNow)
            b1 == afterGetStickyServer(balancer, sessionId, lbNow)
            known == sessionId \in DOMAIN routing.routed
            r == [pc |-> "routing", sessionId |-> sessionId, at |-> lbNow,
                  previous |-> IF known THEN <<routing.routed[sessionId]>> ELSE <<>>,
                  previousHealthy |-> /\ known
                                      /\ routing.routed[sessionId].serverId \in DOMAIN balancer.servers
                                      /\ isServerHealthy(balancer, routing.routed[sessionId].serverId),
                  first |-> "", server |-> "", original |-> "", candidates |-> <<>>,
                  attempt |-> 0, mustFail |-> FALSE, error |-> "", routed |-> routing.routed,
                  routes |-> routing.routes + 1, checks |-> routing.checks]
            available == getAvailableServers(b1)
            index == roundRobinIndex(b1, available)
            selected == available[index + 1]
        IN /\ routing.pc \in {"idle", "done"}
           /\ routing.routes < MaxRoutes
           /\ IF sticky # <<>> /\ isServerHealthy(b1, sticky[1])
              THEN /\ balancer' = Connections(b1, sticky[1], 1)
                   /\ routing' = [Forwarding(r, b1, sticky[1], 0) EXCEPT
                                     !.first = sticky[1], !.original = sticky[1],
                                     !.routed = Routed(@, sessionId, sticky[1], lbNow)]
              ELSE IF available = <<>>
                   THEN /\ balancer' = b1
                        /\ routing' = [r EXCEPT !.pc = "done", !.error = "No available servers"]
                   ELSE /\ balancer' = Connections(
                                           setStickySession([b1 EXCEPT !.currentIndex = index],
                                                            sessionId, selected, lbNow),
                                           selected, 1)
                        /\ routing' = [Forwarding(r, b1, selected, 0) EXCEPT
                                          !.first = selected, !.original = selected,
                                          !.routed = Routed(@, sessionId, selected, lbNow)]
           /\ UNCHANGED <<timers, lbNow, lbLog>>
           /\ UNCHANGED <<engineVars, extractVars, formulaVars, limiterVars, authVars, logins, gameVars>>

\* The next attempt of retryRequest: roundRobin over the candidates it
\* filtered at its start, then forwardRequest up to its await.
RetryOn(r, b, attempt) ==
    LET index == roundRobinIndex(b, r.candidates)
        target == r.candidates[index + 1]
    IN [balancer |-> Connections([b EXCEPT !.currentIndex = index], target, 1),
        routing |-> Forwarding(r, b, target, attempt)]

\* forwardRequest from the result of sendRequest on: the success, or the
\* failure and retryRequest with its attempts on the other servers. A retry
\* that fails finds no server for a retry of its own, the server of the
\* first attempt being unhealthy since its failure.
forwardResult ==
    /\ routing.pc = "sending"
    /\ \/ /\ ~routing.mustFail
          /\ LET b1 == recordSuccess(balancer, routing.server, lbNow)
                 b2 == Connections(b1, routing.server, 0 - 1)
             IN /\ balancer' = IF routing.attempt = 0 THEN b2
                               ELSE Connections(b2, routing.original, 0 - 1)
                /\ timers' = timersAfterUpdate(timers, b1, routing.server, lbNow)
                /\ routing' = Done(routing, "")
       \/ LET b1 == recordFailure(balancer, routing.server, lbNow)
              ts == timersAfterUpdate(timers, b1, routing.server, lbNow)
              others == SelectSeq(getAvailableServers(b1), LAMBDA id : id # routing.server)
          IN /\ timers' = ts
             /\ IF routing.attempt = 0
                THEN IF others = <<>>
                     THEN /\ balancer' = Connections(b1, routing.server, 0 - 1)
                          /\ routing' = Done(routing, "send failed")
                     ELSE LET next == RetryOn([routing EXCEPT !.candidates = others], b1, 1)
                          IN balancer' = next.balancer /\ routing' = next.routing
                ELSE LET b2 == Connections(b1, routing.server, 0 - 1)
                     IN IF routing.attempt = maxRetries
                        THEN /\ balancer' = Connections(b2, routing.original, 0 - 1)
                             /\ routing' = Done(routing, "send failed")
                        ELSE LET next == RetryOn(routing, b2, routing.attempt + 1)
                             IN balancer' = next.balancer /\ routing' = next.routing
    /\ UNCHANGED <<lbNow, lbLog>>
    /\ UNCHANGED <<engineVars, extractVars, formulaVars, limiterVars, authVars, logins, gameVars>>

\* addServer for a second server
AddServer ==
    /\ routing.pc \in {"idle", "done"}
    /\ "server-2" \notin DOMAIN balancer.servers
    /\ balancer' = addServer(balancer, "server-2")
    /\ UNCHANGED <<timers, lbNow, routing, lbLog>>
    /\ UNCHANGED <<engineVars, extractVars, formulaVars, limiterVars, authVars, logins, gameVars>>

\* checkServerHealth(server) between two requests
HealthCheck ==
    \E id \in DOMAIN balancer.servers, ok \in BOOLEAN :
        /\ routing.pc \in {"idle", "done"}
        /\ routing.checks < MaxChecks
        /\ HealthChecked(id, ok)
        /\ routing' = [routing EXCEPT !.checks = @ + 1]
        /\ UNCHANGED lbNow
        /\ UNCHANGED <<engineVars, extractVars, formulaVars, limiterVars, authVars, logins, gameVars>>

\* Time passes: half the stickySessionTimeout, in which the recovery timers
\* that come due fire.
RoutingTick ==
    LET t == lbNow + stickySessionTimeout \div 2
        due == {timer \in timers : timer.due <= t}
    IN /\ routing.pc \in {"idle", "done"}
       /\ lbNow < MaxRoutingTicks * (stickySessionTimeout \div 2)
       /\ lbNow' = t
       /\ timers' = timers \ due
       /\ balancer' = [balancer EXCEPT !.circuitBreakers =
              [id \in DOMAIN @ |->
                  IF \E timer \in due : timer.serverId = id
                  THEN [@[id] EXCEPT !.state = "half-open", !.successCount = 0]
                  ELSE @[id]]]
       /\ UNCHANGED <<routing, lbLog>>
       /\ UNCHANGED <<engineVars, extractVars, formulaVars, limiterVars, authVars, logins, gameVars>>

RoutingInit ==
    /\ EngineIdle
    /\ ExtractIdle
    /\ FormulaIdle
    /\ LimiterIdle
    /\ AuthIdle
    /\ LoginIdle
    /\ balancer = NewBalancer
    /\ timers = {}
    /\ lbNow = 0
    /\ routing = NoRouting
    /\ lbLog = <<>>
    /\ GamesIdle

RoutingNext ==
    \/ AddServer
    \/ routeRequest
    \/ forwardResult
    \/ HealthCheck
    \/ RoutingTick

SpecRouting == RoutingInit /\ [][RoutingNext]_vars

----------------------------------------------------------------------------
(* Claims about routing *)

\* C26: a request whose session was routed to a server less than
\* stickySessionTimeout (5 min) ago is forwarded to that server when that
\* server is healthy, whatever the routing algorithm selects.
C26_SessionStaysOnItsServer ==
    (/\ routing.pc \in {"sending", "done"}
     /\ routing.previous # <<>>
     /\ routing.at - routing.previous[1].at < 300000
     /\ routing.previousHealthy) =>
        routing.first = routing.previous[1].serverId

----------------------------------------------------------------------------
\* MultiplayerManager: the WebSocket connection and its reconnect attempts.

maxReconnectAttempts == 5

\* The WebSocket objects one run constructs.
MaxSockets == 9

\* The manager after its constructor, before any WebSocket exists.  sockets
\* holds the readyState of every WebSocket constructed so far, socket the
\* index of this.socket (0 for null), awaited the index of the socket whose
\* promise initialize() awaits, reconnectTimers the pending setTimeout
\* callbacks of handleDisconnect.  disconnected, consecutive and last are
\* history: whether disconnect() was the user's last call, the reconnect
\* attempts made since the last successful open, and the last event.
NewManager ==
    [sockets |-> <<>>, socket |-> 0, awaited |-> 0,
     reconnectAttempts |-> 0, reconnectTimers |-> 0, heartbeatTimer |-> FALSE,
     connectionFailed |-> 0,
     disconnected |-> FALSE, consecutive |-> 0, last |-> [event |-> "new"]]

\* stopHeartbeat clears the interval, startHeartbeat sets it.
stopHeartbeat(m) == [m EXCEPT !.heartbeatTimer = FALSE]

startHeartbeat(m) == [m EXCEPT !.heartbeatTimer = TRUE]

\* connect() constructs a WebSocket and stores it in this.socket; the socket
\* it replaces keeps its handlers.
connect(m) ==
    [m EXCEPT !.sockets = Append(@, "connecting"),
              !.socket = Len(m.sockets) + 1]

\* handleDisconnect: stops the heartbeat, then schedules a reconnect while
\* reconnectAttempts is below the maximum and emits 'connectionFailed'
\* otherwise.
handleDisconnect(m) ==
    LET again == m.reconnectAttempts < maxReconnectAttempts
    IN  [stopHeartbeat(m) EXCEPT
            !.reconnectTimers = IF again THEN @ + 1 ELSE @,
            !.connectionFailed = IF again THEN @ ELSE UpTo(@ + 1, 1),
            !.last = [event |-> "close", consecutive |-> m.consecutive,
                      scheduled |-> again, emitted |-> ~again]]

\* socket.onopen: resets reconnectAttempts (authenticate() only sends).
onopen(m) ==
    [m EXCEPT !.reconnectAttempts = 0,
              !.consecutive = 0, !.last = [event |-> "open"]]

\* initialize(user): connect(), and once the socket it made opens, the event
\* handlers and the heartbeat.  The user calls it when the manager holds no
\* live socket of theirs: at start, after disconnect(), after a rejected
\* initialize() or a lost connection.
initialize ==
    /\ multiplayer.awaited = 0
    /\ multiplayer.socket # 0 => multiplayer.sockets[multiplayer.socket] = "closed"
    /\ Len(multiplayer.sockets) < MaxSockets
    /\ multiplayer' =
          [connect(multiplayer) EXCEPT
              !.awaited = Len(multiplayer.sockets) + 1,
              !.disconnected = FALSE,
              !.last = [event |-> "initialize"]]
    /\ UNCHANGED difficultyManager
    /\ UNCHANGED <<engineVars, extractVars, formulaVars, limiterVars, authVars, logins, balancerVars>>

\* The open event of a connecting socket: onopen, and the rest of
\* initialize() when it awaits this socket.
SocketOpen ==
    \E i \in DOMAIN multiplayer.sockets :
        /\ multiplayer.sockets[i] = "connecting"
        /\ LET opened == [onopen(multiplayer) EXCEPT !.sockets[i] = "open"]
           IN  multiplayer' =
                  IF multiplayer.awaited = i
                  THEN [startHeartbeat(opened) EXCEPT !.awaited = 0]
                  ELSE opened
        /\ UNCHANGED difficultyManager
        /\ UNCHANGED <<engineVars, extractVars, formulaVars, limiterVars, authVars, logins, balancerVars>>

\* The close event of a socket: a failed connection attempt (after its error
\* event, which rejects the promise of connect()), a lost connection, or the
\* end of close().  onclose is handleDisconnect in every case.
SocketClose ==
    \E i \in DOMAIN multiplayer.sockets :
        /\ multiplayer.sockets[i] # "closed"
        /\ LET closed == [multiplayer EXCEPT
                             !.sockets[i] = "closed",
                             !.awaited = IF @ = i THEN 0 ELSE @]
           IN  multiplayer' = handleDisconnect(closed)
        /\ UNCHANGED difficultyManager
        /\ UNCHANGED <<engineVars, extractVars, formulaVars, limiterVars, authVars, logins, balancerVars>>

\* The setTimeout callback of handleDisconnect: counts the attempt and
\* connects.
ReconnectTimer ==
    /\ multiplayer.reconnectTimers > 0
    /\ Len(multiplayer.sockets) < MaxSockets
    /\ multiplayer' =
          [connect(multiplayer) EXCEPT
              !.reconnectTimers = @ - 1,
              !.reconnectAttempts = @ + 1,
              !.consecutive = @ + 1,
              !.last = [event |-> "reconnect"]]
    /\ UNCHANGED difficultyManager
    /\ UNCHANGED <<engineVars, extractVars, formulaVars, limiterVars, authVars, logins, balancerVars>>

\* disconnect(): stops the heartbeat, closes this.socket and forgets it.  The
\* socket keeps its onclose handler, and pending timers are not cleared.
disconnect ==
    /\ multiplayer.socket # 0
    /\ LET i == multiplayer.socket
       IN  multiplayer' =
              [stopHeartbeat(multiplayer) EXCEPT
                  !.sockets[i] = IF @ = "closed" THEN @ ELSE "closing",
                  !.socket = 0,
                  !.disconnected = TRUE,
                  !.last = [event |-> "disconnect"]]
    /\ UNCHANGED difficultyManager
    /\ UNCHANGED <<engineVars, extractVars, formulaVars, limiterVars, authVars, logins, balancerVars>>

MultiplayerInit ==
    /\ EngineIdle
    /\ ExtractIdle
    /\ FormulaIdle
    /\ LimiterIdle
    /\ AuthIdle
    /\ LoginIdle
    /\ BalancerIdle
    /\ multiplayer = NewManager
    /\ difficultyManager = <<>>

MultiplayerNext ==
    \/ initialize
    \/ SocketOpen
    \/ SocketClose
    \/ ReconnectTimer
    \/ disconnect

SpecMultiplayer == MultiplayerInit /\ [][MultiplayerNext]_vars

\* A socket that is connecting or open.
Live(state) == state \in {"connecting", "open"}

\* C27: after disconnect(), until initialize() is called again, no socket is
\* connecting or open and no reconnect attempt is scheduled.
C27_DisconnectStaysDisconnected ==
    multiplayer.disconnected =>
        /\ \A i \in DOMAIN multiplayer.sockets : ~Live(multiplayer.sockets[i])
        /\ multiplayer.reconnectTimers = 0

\* C28: no more than maxReconnectAttempts reconnect attempts are made without
\* a successful open between them; the close that follows the fifth of them
\* emits 'connectionFailed' and schedules nothing; an open leaves the counter
\* at 0.
C28_AtMostMaxReconnectAttempts ==
    /\ multiplayer.consecutive <= 5
    /\ (multiplayer.last.event = "close" /\ multiplayer.last.consecutive = 5) =>
           (multiplayer.last.emitted /\ ~multiplayer.last.scheduled)
    /\ multiplayer.last.event = "open" => multiplayer.reconnectAttempts = 0

----------------------------------------------------------------------------
\* C29: the range of every score prediction contains the prediction:
\* range.min <= prediction <= range.max (a comparison with NaN is false).
C29_RangeContainsPrediction ==
    (input.kind = "score" /\ output.done) =>
        LET r == output.result
        IN  /\ ~IsNaN(r.prediction) /\ ~IsNaN(r.range.min) /\ ~IsNaN(r.range.max)
            /\ r.range.min <= r.prediction
            /\ r.prediction <= r.range.max

----------------------------------------------------------------------------
\* DifficultyManager: the recorded results and the dynamic adjustment.

\* Object.keys(this.difficultyLevels), in insertion order.
difficultyLevelKeys == <<"easy", "medium", "hard", "expert">>

\* The users and games of the run, the scores on both sides of 30, 70 and 85,
\* and the game results recorded in one run.
PlayerIds == {"p1", "p2"}

GameIds == {"memory_game"}

PerformanceScores == {20, 50, 80, 90}

MaxResults == 2

\* Array.indexOf on the keys, from 0, and -1 for a string that is no key.
IndexOfLevel(d) ==
    IF \E i \in DOMAIN difficultyLevelKeys : difficultyLevelKeys[i] = d
    THEN (CHOOSE i \in DOMAIN difficultyLevelKeys : difficultyLevelKeys[i] = d) - 1
    ELSE 0 - 1

increaseDifficulty(currentDifficulty) ==
    difficultyLevelKeys[MathMin(IndexOfLevel(currentDifficulty) + 1, Len(difficultyLevelKeys) - 1) + 1]

decreaseDifficulty(currentDifficulty) ==
    difficultyLevelKeys[MathMax(IndexOfLevel(currentDifficulty) - 1, 0) + 1]

\* The statistics of a user without a record for the game (averageScore is
\* left out: it is the mean of recentScores and nothing here reads it).
NewStats ==
    [totalGames |-> 0, bestScore |-> 0, recentScores |-> <<>>, preferredDifficulty |-> "easy"]

\* The manager after its constructor with an empty localStorage.
NewDifficultyManager ==
    [userProgress |-> <<>>, adaptiveSettings |-> <<>>, recorded |-> 0, last |-> [op |-> "new"]]

\* getUserStats: the stored statistics, or a new object that is not stored.
getUserStats(dm, gameId, userId) ==
    IF <<userId, gameId>> \in DOMAIN dm.userProgress
    THEN dm.userProgress[<<userId, gameId>>]
    ELSE NewStats

\* obj[userId][gameId] = value.
Put(f, userId, gameId, value) ==
    [k \in DOMAIN f \cup {<<userId, gameId>>} |->
        IF k = <<userId, gameId>> THEN value ELSE f[k]]

\* recordGameResult: creates the statistics if absent, then counts the game,
\* keeps the last 10 scores, the best score and, for a completed game above
\* 70, the difficulty played.
recordGameResult ==
    \E gameId \in GameIds, userId \in PlayerIds, score \in PerformanceScores,
       completed \in BOOLEAN, level \in DOMAIN difficultyLevelKeys :
        /\ difficultyManager.recorded < MaxResults
        /\ LET stats == getUserStats(difficultyManager, gameId, userId)
               pushed == Append(stats.recentScores, score)
               updated ==
                   [totalGames |-> stats.totalGames + 1,
                    recentScores |-> IF Len(pushed) > 10 THEN Tail(pushed) ELSE pushed,
                    bestScore |-> IF score > stats.bestScore THEN score ELSE stats.bestScore,
                    preferredDifficulty |->
                        IF completed /\ score > 70
                        THEN difficultyLevelKeys[level]
                        ELSE stats.preferredDifficulty]
           IN  difficultyManager' =
                  [difficultyManager EXCEPT
                      !.userProgress = Put(@, userId, gameId, updated),
                      !.recorded = @ + 1,
                      !.last = [op |-> "record"]]
        /\ UNCHANGED multiplayer
        /\ UNCHANGED <<engineVars, extractVars, formulaVars, limiterVars, authVars, logins, balancerVars>>

\* The new difficulty of adjustDifficultyDynamically.
adjustedDifficulty(currentDifficulty, score, completed) ==
    IF score > 85 /\ completed THEN increaseDifficulty(currentDifficulty)
    ELSE IF score < 30 \/ ~completed THEN decreaseDifficulty(currentDifficulty)
    ELSE currentDifficulty

\* userStats.preferredDifficulty = newDifficulty, on the object that
\* getUserStats returned: the stored statistics change, a new object is
\* dropped.
SetPreferred(progress, userId, gameId, newDifficulty) ==
    IF <<userId, gameId>> \in DOMAIN progress
    THEN [progress EXCEPT ![<<userId, gameId>>].preferredDifficulty = newDifficulty]
    ELSE progress

\* adjustDifficultyDynamically(gameId, userId, currentPerformance): raises the
\* preferred difficulty after a completed game above 85, lowers it after a
\* game below 30 or not completed, and records a change.
adjustDifficultyDynamically ==
    \E gameId \in GameIds, userId \in PlayerIds, score \in PerformanceScores,
       completed \in BOOLEAN :
        LET currentDifficulty == getUserStats(difficultyManager, gameId, userId).preferredDifficulty
            newDifficulty == adjustedDifficulty(currentDifficulty, score, completed)
            changed == newDifficulty # currentDifficulty
        IN  /\ difficultyManager' =
                  [difficultyManager EXCEPT
                      !.adaptiveSettings =
                          IF changed
                          THEN Put(@, userId, gameId,
                                   [previousDifficulty |-> currentDifficulty,
                                    newDifficulty |-> newDifficulty,
                                    reason |-> IF score > 85 THEN "high_performance"
                                               ELSE "low_performance"])
                          ELSE @,
                      !.userProgress =
                          IF changed THEN SetPreferred(@, userId, gameId, newDifficulty) ELSE @,
                      !.last = [op |-> "adjust", gameId |-> gameId, userId |-> userId,
                                previous |-> currentDifficulty, returned |-> newDifficulty]]
            /\ UNCHANGED multiplayer
            /\ UNCHANGED <<engineVars, extractVars, formulaVars, limiterVars, authVars, logins, balancerVars>>

DifficultyInit ==
    /\ EngineIdle
    /\ ExtractIdle
    /\ FormulaIdle
    /\ LimiterIdle
    /\ AuthIdle
    /\ LoginIdle
    /\ BalancerIdle
    /\ multiplayer = <<>>
    /\ difficultyManager = NewDifficultyManager

DifficultyNext ==
    \/ recordGameResult
    \/ adjustDifficultyDynamically

SpecDifficulty == DifficultyInit /\ [][DifficultyNext]_vars

\* C30: after adjustDifficultyDynamically returned a difficulty other than
\* the previous preferred one, getUserStats of that user and game has the
\* returned difficulty as preferredDifficulty; the returned difficulty is one
\* of the four levels and at most one level from the previous one.
C30_AdjustmentIsStored ==
    difficultyManager.last.op = "adjust" =>
        LET l == difficultyManager.last
            from == IndexOfLevel(l.previous)
            to == IndexOfLevel(l.returned)
        IN  /\ l.returned # l.previous =>
                  getUserStats(difficultyManager, l.gameId, l.userId).preferredDifficulty
                      = l.returned
            /\ to >= 0
            /\ to - from <= 1
            /\ from - to <= 1

====
